---- MODULE Spec2Model ----
(***************************************************************************)
(* A model of the PII detection service: PIIAnalyzer.analyze_text,         *)
(* anonymize_text, validate_entities and get_statistics                    *)
(* (src/pii_analyzer.py) and the /api/analyze, /api/anonymize and          *)
(* /api/batch-analyze handlers (src/api_routes.py).                        *)
(*                                                                         *)
(* Texts and replacement strings are sequences of one-character strings.   *)
(* Scores and thresholds are integers in ten-thousandths (0.5 is 5000), so *)
(* that round(score, 3) is a real conversion.  A Python Optional argument  *)
(* is a set: {} is None (or an absent JSON key), {v} is the value v.       *)
(* A Python dict is a function whose DOMAIN is its key set.                *)
(*                                                                         *)
(* One call is one behaviour: Init draws the operation and its inputs, the *)
(* operation's action runs the whole handler and stores what it returns    *)
(* (Spec).  The code that runs in steps other code can fall between has    *)
(* specifications of its own: get_analyzer called from concurrent request  *)
(* threads (SpecAnalyzer), the upload handlers and their temporary file    *)
(* (SpecFile), and the run of PIIDetectionServer with the signals it may   *)
(* receive (SpecServer).                                                   *)
(***************************************************************************)
EXTENDS Integers, Sequences, FiniteSets, TLC

VARIABLES
    pc,           \* "ready" before the call, "done" after it
    op,           \* the operation called
    text,         \* argument text
    candidates,   \* what the recognizers find in text, before the engine's own filter
    scoreArg,     \* argument score_threshold (Optional)
    resultsArg,   \* argument analyzer_results (Optional list)
    configArg,    \* argument anonymization_config (Optional dict)
    fault,        \* the collaborator that raises during the call: "none", "detector",
                  \* "engine", "get_analyzer"
    entitiesArg,  \* argument entities (a list; <<>> stands for None too)
    ctorEntities, \* the entities the PIIAnalyzer was constructed with
    provider,     \* what the engine's get_supported_entities answers (Optional: {} raises)
    batch,        \* the 'texts' value of a /api/batch-analyze request (Optional list)
    noData,       \* `not data`: the JSON body of the request is empty ({})
    results,      \* the list analyze_text returned
    anon,         \* the dict anonymize_text returned
    operators,    \* the operators table anonymize_text built
    resp,         \* the JSON body the API handler returned
    stats,        \* the dict get_statistics returned
    valid,        \* the list validate_entities returned
    detectCalls,  \* number of AnalyzerEngine.analyze calls made by the call
    engineCalls,  \* number of AnonymizerEngine.anonymize calls made by the call
    \* get_analyzer and the threads that call it
    instance,     \* _analyzer_instance: 0 is None, k > 0 the k-th PIIAnalyzer built
    built,        \* number of PIIAnalyzer objects constructed so far
    warmup,       \* create_app's warm-up call: "pending", "ok", "failed"
    tpc,          \* each request thread's position in get_analyzer
    got,          \* the PIIAnalyzer a thread holds: the one it built, then the
                  \* one get_analyzer returned to it (0: none)
    \* analyze_file and anonymize_file
    handler,      \* "analyze_file" or "anonymize_file"
    upload,       \* the multipart request
    fpc,          \* the handler's position
    onDisk,       \* whether a file exists at file_path
    saved,        \* whether the handler reached file.save(file_path)
    cleanups,     \* number of cleanup_file(file_path) calls
    raised,       \* the step of the inner try that raised, "none" if none did
    fdata,        \* file_data
    fresults,     \* what analyze_text returned
    fanon,        \* what anonymize_text returned
    fresp,        \* the JSON body of the response
    \* PIIDetectionServer
    is_running,   \* self.is_running
    started,      \* whether a server start has set is_running
    mpc,          \* position of run() in the main thread
    stack,        \* the shutdown() calls in progress, innermost last
    installed,    \* the signals signal_handler is installed for
    pending,      \* the exception run() will leave with, "none" if none
    cleared,      \* number of times shutdown cleared is_running
    removed,      \* number of shutil.rmtree(temp_dir) calls
    tempExists,   \* whether the directory temp exists
    signals       \* number of signals delivered so far

callVars == <<pc, op, text, candidates, scoreArg, resultsArg, configArg, fault,
              entitiesArg, ctorEntities, provider, batch, noData,
              results, anon, operators, resp, stats, valid, detectCalls,
              engineCalls>>

analyzerVars == <<instance, built, warmup, tpc, got>>

fileVars == <<handler, upload, fpc, onDisk, saved, cleanups, raised, fdata,
              fresults, fanon, fresp>>

serverVars == <<is_running, started, mpc, stack, installed, pending, cleared,
                removed, tempExists, signals>>

vars == <<callVars, analyzerVars, fileVars, serverVars>>

(***************************** bounds **************************************)

\* Length of the longest of the enumerated texts.
MaxLen == 2
\* Length of the longest span list (detector output, analyzer_results).
MaxSpans == 2
\* Length of the longest list handed to get_statistics.
MaxResults == 3
\* Number of texts in the largest batch.
MaxBatch == 3
\* Length of the longest requested entity list.
MaxEntities == 3
\* Number of request threads that call get_analyzer.
MaxThreads == 3
\* Number of SIGINT and SIGTERM deliveries during one run of the server.
MaxSignals == 2

(************************* program constants *******************************)

\* Config.CONFIDENCE_THRESHOLD: 0.5, in ten-thousandths.
CONFIDENCE_THRESHOLD == 5000

DEFAULT_PII_ENTITIES ==
    <<"CREDIT_CARD", "CRYPTO", "DATE_TIME", "EMAIL_ADDRESS", "IBAN_CODE",
      "IP_ADDRESS", "NRP", "LOCATION", "PERSON", "PHONE_NUMBER",
      "MEDICAL_LICENSE", "URL", "US_BANK_NUMBER", "US_DRIVER_LICENSE",
      "US_ITIN", "US_PASSPORT", "US_SSN">>

ANONYMIZATION_STRATEGIES ==
    {"replace", "redact", "hash", "mask", "encrypt", "custom"}

\* A policy entry {'type': 'replace', 'new_value': v}.
Replace(v) == [type |-> "replace", new_value |-> v]

DEFAULT_ANONYMIZATION_CONFIG ==
    [
     PERSON |->
        Replace(<<"[", "P", "E", "R", "S", "O", "N", "]">>),
     EMAIL_ADDRESS |->
        Replace(<<"[", "E", "M", "A", "I", "L", "]">>),
     PHONE_NUMBER |->
        Replace(<<"[", "P", "H", "O", "N", "E", "]">>),
     CREDIT_CARD |->
        Replace(<<"[", "C", "R", "E", "D", "I", "T", "_", "C", "A", "R", "D", "]">>),
     US_SSN |->
        Replace(<<"[", "S", "S", "N", "]">>),
     LOCATION |->
        Replace(<<"[", "L", "O", "C", "A", "T", "I", "O", "N", "]">>),
     DATE_TIME |->
        Replace(<<"[", "D", "A", "T", "E", "]">>),
     IP_ADDRESS |->
        Replace(<<"[", "I", "P", "_", "A", "D", "D", "R", "E", "S", "S", "]">>),
     URL |->
        Replace(<<"[", "U", "R", "L", "]">>),
     US_DRIVER_LICENSE |->
        Replace(<<"[", "D", "R", "I", "V", "E", "R", "_", "L", "I", "C", "E", "N", "S", "E", "]">>),
     US_PASSPORT |->
        Replace(<<"[", "P", "A", "S", "S", "P", "O", "R", "T", "]">>),
     MEDICAL_LICENSE |->
        Replace(<<"[", "M", "E", "D", "I", "C", "A", "L", "_", "L", "I", "C", "E", "N", "S", "E", "]">>),
     US_BANK_NUMBER |->
        Replace(<<"[", "B", "A", "N", "K", "_", "N", "U", "M", "B", "E", "R", "]">>),
     CRYPTO |->
        Replace(<<"[", "C", "R", "Y", "P", "T", "O", "_", "A", "D", "D", "R", "E", "S", "S", "]">>),
     IBAN_CODE |->
        Replace(<<"[", "I", "B", "A", "N", "]">>),
     US_ITIN |->
        Replace(<<"[", "I", "T", "I", "N", "]">>),
     NRP |->
        Replace(<<"[", "N", "R", "P", "]">>)
    ]

(****************************** helpers ************************************)

Min(a, b) == IF a < b THEN a ELSE b
Max(a, b) == IF a < b THEN b ELSE a

Range(s) == {s[i] : i \in 1..Len(s)}

\* The empty dict.
EmptyDict == [k \in {} |-> k]

SeqsUpTo(S, n) == UNION {[1..k -> S] : k \in 0..n}

\* Python's s[a:b] for integers a, b: negative indexes count from the end and
\* out-of-range ones are clipped, so a slice never raises.
PyIndex(n, i) == IF i < 0 THEN Max(0, n + i) ELSE Min(i, n)
PySlice(s, a, b) == SubSeq(s, PyIndex(Len(s), a) + 1, PyIndex(Len(s), b))

\* Python's `x or y` for an Optional number: None and 0 are falsy.
OrElse(x, y) == IF x = {} \/ x = {0} THEN y ELSE CHOOSE v \in x : TRUE

AlwaysUp3(s) == ((s \div 10) + 1) * 10

\* round(score, 3): to the nearest thousandth.  The model's scores never sit
\* on a half (last digit 5), where the float's binary expansion decides.
Round3(s) == ((s + 5) \div 10) * 10

(********************* the recognizer (external) ***************************)

\* AnalyzerEngine.analyze: of what the recognizers find, the engine returns
\* the spans of a requested entity type whose score reaches score_threshold,
\* in the order found.
Detect(cands, entities, threshold) ==
    SelectSeq(cands, LAMBDA c : c.entity_type \in Range(entities)
                                /\ c.score >= threshold)

(************************ PIIAnalyzer.analyze_text *************************)

\* pii_data for one detected span.
PiiData(t, r) ==
    [entity_type |-> r.entity_type,
     start       |-> r.start,
     end         |-> r.end,
     score       |-> Round3(r.score),
     text        |-> PySlice(t, r.start, r.end)]

RECURSIVE InsertByStart(_, _)
InsertByStart(x, s) ==
    IF s = <<>> THEN <<x>>
    ELSE IF Head(s).start <= x.start THEN <<Head(s)>> \o InsertByStart(x, Tail(s))
    ELSE <<x>> \o s

RECURSIVE SortFrom(_, _)
SortFrom(s, acc) ==
    IF s = <<>> THEN acc ELSE SortFrom(Tail(s), InsertByStart(Head(s), acc))

UnsortedByStart(s) == s

\* pii_results.sort(key=lambda x: x['start']): stable, ascending start.
SortByStart(s) == SortFrom(s, <<>>)

\* The threshold analyze_text hands to the engine.
Threshold(score_threshold) == OrElse(score_threshold, CONFIDENCE_THRESHOLD)

\* The try block of analyze_text once the engine has answered.
ConvertResults(t, detected) ==
    SortByStart([i \in 1..Len(detected) |-> PiiData(t, detected[i])])

\* analyze_text(text, entities=None, language, score_threshold): the list it
\* returns.  entities is a list; <<>> stands for None too (both are falsy).
AnalyzeText(t, entities, score_threshold, cands, flt) ==
    IF t = <<>> THEN <<>>
    ELSE IF flt = "detector" THEN <<>>
    ELSE ConvertResults(t,
            Detect(cands,
                   IF entities = <<>> THEN DEFAULT_PII_ENTITIES ELSE entities,
                   Threshold(score_threshold)))

\* How many times analyze_text calls the engine.
AnalyzeCalls(t) == IF t = <<>> THEN 0 ELSE 1

(********************* the anonymizer (external) ***************************)

\* str(entity_type), for the placeholder the engine's own default writes.
EntityName(et) ==
    CASE et = "PERSON" -> <<"P", "E", "R", "S", "O", "N">>
      [] et = "EMAIL_ADDRESS" ->
            <<"E", "M", "A", "I", "L", "_", "A", "D", "D", "R", "E", "S", "S">>
      [] et = "UK_NHS" -> <<"U", "K", "_", "N", "H", "S">>
      [] OTHER -> <<"?">>

\* The operator the engine applies to an entity type: the table's entry, else
\* its "DEFAULT" entry, else the engine's own default, a replace without
\* new_value.
EngineOperator(ops, et) ==
    IF et \in DOMAIN ops THEN ops[et]
    ELSE IF "DEFAULT" \in DOMAIN ops THEN ops["DEFAULT"]
    ELSE [operator_name |-> "replace", params |-> EmptyDict]

\* The mask operator: min(len, chars_to_mask) characters if chars_to_mask > 0,
\* else none, from the start or from the end.
MaskText(sub, params) ==
    LET n == IF params.chars_to_mask > 0
             THEN Min(Len(sub), params.chars_to_mask) ELSE 0
        stars == [i \in 1..n |-> params.masking_char]
    IN IF params.from_end
       THEN SubSeq(sub, 1, Len(sub) - n) \o stars
       ELSE stars \o SubSeq(sub, n + 1, Len(sub))

\* The hash operator's digest: fixed width, the value abstracted.
Digest(sub) == <<"#", "#">>

\* The replacement one operator writes for the substring sub.
Operate(o, et, sub) ==
    CASE o.operator_name = "replace" ->
            IF "new_value" \in DOMAIN o.params /\ o.params.new_value # <<>>
            THEN o.params.new_value
            ELSE <<"<">> \o EntityName(et) \o <<">">>
      [] o.operator_name = "redact" -> <<>>
      [] o.operator_name = "mask" -> MaskText(sub, o.params)
      [] o.operator_name = "hash" -> Digest(sub)

RECURSIVE InsertDescending(_, _)
InsertDescending(x, s) ==
    IF s = <<>> THEN <<x>>
    ELSE IF Head(s).start > x.start
            \/ (Head(s).start = x.start /\ Head(s).end >= x.end)
         THEN <<Head(s)>> \o InsertDescending(x, Tail(s))
    ELSE <<x>> \o s

RECURSIVE SortDescendingFrom(_, _)
SortDescendingFrom(s, acc) ==
    IF s = <<>> THEN acc
    ELSE SortDescendingFrom(Tail(s), InsertDescending(Head(s), acc))

\* The engine rewrites the last span first.
SortDescending(s) == SortDescendingFrom(s, <<>>)

\* The engine refuses a span that starts or ends past the text.  It also
\* compares the spans with one another (has_conflict on every pair, then a
\* sort), which the objects anonymize_text builds do not support: they carry
\* the four attributes and nothing else, so two or more of them make the
\* engine raise.
EngineRejects(t, spans) ==
    \/ Len(spans) >= 2
    \/ \E i \in 1..Len(spans) : spans[i].start > Len(t) \/ spans[i].end > Len(t)

\* The engine's pass over the spans, last span first: each replacement is
\* written into the output at the span's offsets, and its item remembers how
\* much text follows it.  st = [out, items].
RECURSIVE EngineOperate(_, _, _, _)
EngineOperate(t, spans, ops, st) ==
    IF spans = <<>> THEN st
    ELSE LET e == Head(spans)
             o == EngineOperator(ops, e.entity_type)
             changed == Operate(o, e.entity_type, PySlice(t, e.start, e.end))
             after == PySlice(st.out, Min(e.end, Len(t)), Len(st.out))
             item == [operator    |-> o.operator_name,
                      entity_type |-> e.entity_type,
                      from_end    |-> Len(after),
                      text        |-> changed]
         IN EngineOperate(t, Tail(spans), ops,
                [out   |-> PySlice(st.out, 0, e.start) \o changed \o after,
                 items |-> Append(st.items, item)])

\* AnonymizerEngine.anonymize when it returns (fault = "engine" stands for any
\* exception of the library's own): the rewritten text and one item
\* per span, last span first, each item's start and end located in the
\* rewritten text.
EngineAnonymize(t, spans, ops) ==
    LET st == EngineOperate(t, SortDescending(spans), ops,
                            [out |-> t, items |-> <<>>])
        n == Len(st.out)
    IN [text  |-> st.out,
        items |-> [i \in 1..Len(st.items) |->
            LET it == st.items[i]
                s == n - (it.from_end + Len(it.text))
            IN [operator    |-> it.operator,
                entity_type |-> it.entity_type,
                start       |-> s,
                end         |-> s + Len(it.text),
                text        |-> it.text]]]

(*********************** PIIAnalyzer.anonymize_text ************************)

SpanKeys == {"entity_type", "start", "end", "score"}

\* The stand-in RecognizerResult objects built from the result dicts.
PresidioResults(ar) ==
    [i \in 1..Len(ar) |->
        [entity_type |-> ar[i].entity_type,
         start       |-> ar[i].start,
         end         |-> ar[i].end,
         score       |-> ar[i].score]]

\* Reading a key a result dict lacks raises KeyError.
ConvertRaises(ar) == \E i \in 1..Len(ar) : ~(SpanKeys \subseteq DOMAIN ar[i])

\* config = anonymization_config or Config.DEFAULT_ANONYMIZATION_CONFIG:
\* None and the empty dict are falsy.
PolicyTable(cfg) ==
    IF cfg = {} THEN DEFAULT_ANONYMIZATION_CONFIG
    ELSE LET d == CHOOSE c \in cfg : TRUE
         IN IF DOMAIN d = {} THEN DEFAULT_ANONYMIZATION_CONFIG ELSE d

\* The strategies the loop over config has a branch for.
RegisteredStrategies == {"replace", "redact", "mask", "hash"}

\* settings.get(key, default)
Get(settings, key, default) ==
    IF key \in DOMAIN settings THEN settings[key] ELSE default

\* The OperatorConfig one policy entry is turned into.
OperatorConfig(settings) ==
    CASE settings.type = "replace" ->
            [operator_name |-> "replace",
             params |-> [new_value |-> settings.new_value]]
      [] settings.type = "redact" ->
            [operator_name |-> "redact", params |-> EmptyDict]
      [] settings.type = "mask" ->
            [operator_name |-> "mask",
             params |-> [masking_char  |-> Get(settings, "masking_char", "*"),
                         chars_to_mask |-> Get(settings, "chars_to_mask", -1),
                         from_end      |-> Get(settings, "from_end", FALSE)]]
      [] settings.type = "hash" ->
            [operator_name |-> "hash", params |-> EmptyDict]

\* The loop over config.items(): the operators dict it fills.
BuildOperators(config) ==
    [et \in {e \in DOMAIN config : config[e].type \in RegisteredStrategies} |->
        OperatorConfig(config[et])]

\* settings['type'] or settings['new_value'] on an entry without it raises
\* KeyError.
ConfigRaises(config) ==
    \E e \in DOMAIN config :
        \/ "type" \notin DOMAIN config[e]
        \/ (config[e].type = "replace" /\ "new_value" \notin DOMAIN config[e])

\* analyzer_results as anonymize_text uses it: detection runs only for None.
AnalyzerResults(t, ar, cands, flt) ==
    IF ar = {} THEN AnalyzeText(t, <<>>, {}, cands, flt)
    ELSE CHOOSE a \in ar : TRUE

\* Whether the try block of anonymize_text raises (and the except answers).
AnonymizeRaises(t, ar, cfg, cands, flt) ==
    LET used == AnalyzerResults(t, ar, cands, flt)
    IN \/ ConvertRaises(used)
       \/ ConfigRaises(PolicyTable(cfg))
       \/ flt = "engine"
       \/ EngineRejects(t, PresidioResults(used))

\* The operators dict built by anonymize_text (empty when it is never built).
AnonymizeOperators(t, ar, cfg, cands, flt) ==
    IF t = <<>> \/ ConvertRaises(AnalyzerResults(t, ar, cands, flt))
       \/ ConfigRaises(PolicyTable(cfg))
    THEN EmptyDict
    ELSE BuildOperators(PolicyTable(cfg))

EmptiedText(t) == [text |-> <<>>, items |-> <<>>]

\* The except of anonymize_text: the text as it came, no items.
FailureResult(t) == [text |-> t, items |-> <<>>]

\* anonymize_text(text, analyzer_results, anonymization_config): the dict it
\* returns.
AnonymizeText(t, ar, cfg, cands, flt) ==
    IF t = <<>> THEN [text |-> <<>>, items |-> <<>>]
    ELSE IF AnonymizeRaises(t, ar, cfg, cands, flt)
         THEN FailureResult(t)
    ELSE LET r == EngineAnonymize(t,
                    PresidioResults(AnalyzerResults(t, ar, cands, flt)),
                    BuildOperators(PolicyTable(cfg)))
         IN [text  |-> r.text,
             items |-> [i \in 1..Len(r.items) |->
                 [operator    |-> r.items[i].operator,
                  entity_type |-> r.items[i].entity_type,
                  start       |-> r.items[i].start,
                  end         |-> r.items[i].end,
                  text        |-> r.items[i].text]]]

\* How many times anonymize_text has the engine detect.
AnonymizeCalls(t, ar) ==
    IF t # <<>> /\ ar = {} THEN AnalyzeCalls(t) ELSE 0

UnguardedEngineCalls(t, ar, cfg, cands, flt) ==
    IF ConvertRaises(AnalyzerResults(t, ar, cands, flt))
       \/ ConfigRaises(PolicyTable(cfg))
    THEN 0 ELSE 1

\* How many times anonymize_text calls AnonymizerEngine.anonymize: never for
\* an empty text, nor when building the spans or the operators raised.
EngineCalls(t, ar, cfg, cands, flt) ==
    IF t = <<>> THEN 0
    ELSE IF ConvertRaises(AnalyzerResults(t, ar, cands, flt))
            \/ ConfigRaises(PolicyTable(cfg))
         THEN 0 ELSE 1

(********************** PIIAnalyzer.validate_entities **********************)

\* self.entities = entities or Config.DEFAULT_PII_ENTITIES
SelfEntities(ctor) == IF ctor = <<>> THEN DEFAULT_PII_ENTITIES ELSE ctor

\* get_supported_entities(): the engine's answer, the configured default
\* list when the engine raises.
GetSupportedEntities(prov) ==
    IF prov = {} THEN DEFAULT_PII_ENTITIES ELSE CHOOSE l \in prov : TRUE

FirstValidEntity(entities, self_entities, prov) ==
    LET supported == GetSupportedEntities(prov)
        valid_entities == SelectSeq(entities,
                                    LAMBDA e : e \in Range(supported))
    IN IF valid_entities = <<>> THEN self_entities
       ELSE <<Head(valid_entities)>>

\* validate_entities(entities): the list it returns.
ValidateEntities(entities, self_entities, prov) ==
    IF entities = <<>> THEN self_entities
    ELSE LET supported == GetSupportedEntities(prov)
             valid_entities == SelectSeq(entities,
                                         LAMBDA e : e \in Range(supported))
         IN IF valid_entities = <<>> THEN self_entities ELSE valid_entities

(*********************** PIIAnalyzer.get_statistics ************************)

CountEachOnce(rs) == [et \in {rs[i].entity_type : i \in 1..Len(rs)} |-> 1]

\* entity_counts: how many results each entity type has.
EntityCounts(rs) ==
    [et \in {rs[i].entity_type : i \in 1..Len(rs)} |->
        Cardinality({i \in 1..Len(rs) : rs[i].entity_type = et})]

\* sum(scores)
RECURSIVE SumScores(_)
SumScores(rs) == IF rs = <<>> THEN 0 ELSE Head(rs).score + SumScores(Tail(rs))

TruncatedAverage(rs) == (SumScores(rs) \div (10 * Len(rs))) * 10

\* round(sum(scores) / len(scores), 3): the mean to the nearest thousandth.
\* The model's scores never put a mean on a half, where the float's binary
\* expansion decides.
AverageConfidence(rs) ==
    ((SumScores(rs) + 5 * Len(rs)) \div (10 * Len(rs))) * 10

\* The three tests of confidence_distribution (0.8 and 0.5 in
\* ten-thousandths).
IsHigh(score) == score >= 8000
MediumAbove(score) == 5000 < score /\ score < 8000
IsMedium(score) == 5000 <= score /\ score < 8000
IsLow(score) == score < 5000

\* sum(1 for s in scores if ...), for each of the three tests.
CountHigh(rs) == Cardinality({i \in 1..Len(rs) : IsHigh(rs[i].score)})
CountMedium(rs) == Cardinality({i \in 1..Len(rs) : IsMedium(rs[i].score)})
CountLow(rs) == Cardinality({i \in 1..Len(rs) : IsLow(rs[i].score)})

\* result['entity_type'] or result['score'] on a result without it raises
\* KeyError.
StatisticsRaises(rs) ==
    \E i \in 1..Len(rs) : ~({"entity_type", "score"} \subseteq DOMAIN rs[i])

\* get_statistics(results): the dict it returns (when it raises nothing).
GetStatistics(rs) ==
    IF rs = <<>>
    THEN [total_entities        |-> 0,
          entity_counts         |-> EmptyDict,
          average_confidence    |-> 0,
          high_confidence_count |-> 0]
    ELSE [total_entities        |-> Len(rs),
          entity_counts         |-> EntityCounts(rs),
          average_confidence    |-> AverageConfidence(rs),
          high_confidence_count |-> CountHigh(rs),
          confidence_distribution |->
              ("high (>= 0.8)" :> CountHigh(rs))
              @@ ("medium (0.5-0.79)" :> CountMedium(rs))
              @@ ("low (< 0.5)" :> CountLow(rs))]

(****************************** get_analyzer *******************************)

Threads == 1..MaxThreads

\* `_analyzer_instance is None`
IsNone(inst) == inst = 0

\* get_analyzer() with no other thread inside it: _analyzer_instance and the
\* number of PIIAnalyzer built afterwards.  With flt = "get_analyzer" the
\* constructor raises and nothing is stored.
GetAnalyzer(inst, blt, flt) ==
    IF IsNone(inst) /\ flt # "get_analyzer"
    THEN [instance |-> blt + 1, built |-> blt + 1]
    ELSE [instance |-> inst, built |-> blt]

\* _analyzer_instance as the module is loaded, the threads outside
\* get_analyzer.
NoThreads ==
    /\ instance = 0
    /\ built = 0
    /\ warmup = "pending"
    /\ tpc = [t \in Threads |-> "idle"]
    /\ got = [t \in Threads |-> 0]

(***************************** API handlers ********************************)

\* data.get('score_threshold', Config.CONFIDENCE_THRESHOLD): the default
\* stands in for an absent key.
ApiScore(score) == IF score = {} THEN {CONFIDENCE_THRESHOLD} ELSE score

\* datetime.now().isoformat(): the moment of the reply, whatever it is.
Timestamp == "now"

\* handle_error(message)
ErrorResponse(message) ==
    [success |-> FALSE, error |-> message, timestamp |-> Timestamp]

\* not text.strip(): the model's texts hold no white space.
Blank(t) == t = <<>>

\* GET /api/health: the JSON body returned.
ApiHealth(prov, flt) ==
    IF flt = "get_analyzer" THEN ErrorResponse("Health check failed")
    ELSE [success            |-> TRUE,
          status             |-> "healthy",
          version            |-> "1.0.0",
          supported_entities |-> GetSupportedEntities(prov),
          timestamp          |-> Timestamp]

\* GET /api/entities: the JSON body returned.
ApiEntities(prov, flt) ==
    IF flt = "get_analyzer" THEN ErrorResponse("Failed to get entities")
    ELSE [success          |-> TRUE,
          entities         |-> GetSupportedEntities(prov),
          count            |-> Len(GetSupportedEntities(prov)),
          default_entities |-> DEFAULT_PII_ENTITIES,
          timestamp        |-> Timestamp]

\* len(test_texts) of the CLI command test-analyzer.
TestTexts == 3

\* test-analyzer: the number of analyze_text calls it makes, each having the
\* engine detect once; none when get_analyzer() raised.
TestAnalyzerCalls(flt) == IF flt = "get_analyzer" THEN 0 ELSE TestTexts

\* Whether /api/analyze and /api/anonymize get as far as get_analyzer().
TextReaches(t) == ~Blank(t)

\* Whether /api/batch-analyze gets as far as get_analyzer().
BatchReaches(nodata, b) == ~nodata /\ b # {} /\ b # {<<>>}

\* POST /api/analyze: the JSON body returned.  get_analyzer() raising (the
\* PIIAnalyzer cannot be built) is answered by the handler's except.
ApiAnalyze(t, score, cands, flt) ==
    IF Blank(t) THEN ErrorResponse("Text must be a non-empty string")
    ELSE IF flt = "get_analyzer" THEN ErrorResponse("Analysis failed")
    ELSE LET rs == AnalyzeText(t, <<>>, ApiScore(score), cands, flt)
         IN [success         |-> TRUE,
             results         |-> rs,
             statistics      |-> GetStatistics(rs),
             text_length     |-> Len(t),
             score_threshold |-> ApiScore(score),
             timestamp       |-> Timestamp]

\* POST /api/anonymize runs the detection when analyzer_results is falsy:
\* absent, null or the empty list.
ApiDetects(ar) == ar = {} \/ ar = {<<>>}

\* The analyzer_results the /api/anonymize handler anonymizes with.
ApiAnalyzerResults(t, ar, score, cands, flt) ==
    IF ApiDetects(ar) THEN AnalyzeText(t, <<>>, ApiScore(score), cands, flt)
    ELSE CHOOSE a \in ar : TRUE

\* POST /api/anonymize: the JSON body returned.  get_statistics raising on the
\* caller's results is answered by the handler's except.
ApiAnonymize(t, ar, cfg, score, cands, flt) ==
    IF Blank(t) THEN ErrorResponse("Text must be a non-empty string")
    ELSE IF flt = "get_analyzer" THEN ErrorResponse("Anonymization failed")
    ELSE LET used == ApiAnalyzerResults(t, ar, score, cands, flt)
             r == AnonymizeText(t, {used}, cfg, cands, flt)
         IN IF StatisticsRaises(used)
            THEN ErrorResponse("Anonymization failed")
            ELSE
            [success           |-> TRUE,
             original_text     |-> t,
             anonymized_text   |-> r.text,
             anonymized_items  |-> r.items,
             detected_entities |-> used,
             statistics        |-> GetStatistics(used),
             timestamp         |-> Timestamp]

\* How many times the /api/anonymize handler has the engine detect.
ApiAnonymizeCalls(t, ar) ==
    IF ~Blank(t) /\ ApiDetects(ar) THEN AnalyzeCalls(t) ELSE 0

(************************** POST /api/batch-analyze ************************)

\* isinstance(text, str), of one element of 'texts'.
IsStr(item) == item.kind = "str"

\* text[:100] + ('...' if len(text) > 100 else '')
TextPreview(t) ==
    PySlice(t, 0, 100) \o (IF Len(t) > 100 THEN <<".", ".", ".">> ELSE <<>>)

\* The entry the loop appends for the element at (0-based) position i.
\* analyze_text and get_statistics raise nothing on what they are given here,
\* so the loop's own except never answers.
BatchEntry(item, i, entities, score) ==
    IF ~IsStr(item)
    THEN [index      |-> i,
          error      |-> "Text must be a string",
          results    |-> <<>>,
          statistics |-> EmptyDict]
    ELSE LET rs == AnalyzeText(item.text, entities, score,
                               item.candidates, item.fault)
         IN [index        |-> i,
             text_preview |-> TextPreview(item.text),
             results      |-> rs,
             statistics   |-> GetStatistics(rs)]

StopAtNonString(texts, entities, score) ==
    LET bad == {k \in 1..Len(texts) : ~IsStr(texts[k])}
        n == IF bad = {} THEN Len(texts)
             ELSE CHOOSE k \in bad : \A j \in bad : k <= j
    IN [k \in 1..n |-> BatchEntry(texts[k], k - 1, entities, score)]

FailuresLast(texts, entities, score) ==
    LET all == [k \in 1..Len(texts) |->
                    BatchEntry(texts[k], k - 1, entities, score)]
    IN SelectSeq(all, LAMBDA r : "error" \notin DOMAIN r)
       \o SelectSeq(all, LAMBDA r : "error" \in DOMAIN r)

\* batch_results after the loop over enumerate(texts).
BatchResults(texts, entities, score) ==
    [k \in 1..Len(texts) |-> BatchEntry(texts[k], k - 1, entities, score)]

RECURSIVE CountDetecting(_)
CountDetecting(entries) ==
    IF entries = <<>> THEN 0
    ELSE (IF Head(entries).results # <<>> THEN 1 ELSE 0)
         + CountDetecting(Tail(entries))

\* total_entities after the loop: len(results) of every analyzed text.
RECURSIVE TotalEntities(_)
TotalEntities(entries) ==
    IF entries = <<>> THEN 0
    ELSE (IF "error" \in DOMAIN Head(entries) THEN 0
          ELSE Len(Head(entries).results))
         + TotalEntities(Tail(entries))

\* batch_statistics
BatchStatistics(texts, entries) ==
    [total_texts          |-> Len(texts),
     total_entities_found |-> TotalEntities(entries),
     successful_analyses  |->
        Len(SelectSeq(entries, LAMBDA r : "error" \notin DOMAIN r)),
     failed_analyses      |->
        Len(SelectSeq(entries, LAMBDA r : "error" \in DOMAIN r))]

\* The entities the handler analyzes with: validated when the request names
\* any, by the service's analyzer (built by get_analyzer() without entities).
BatchEntities(entities, prov) ==
    IF entities = <<>> THEN <<>>
    ELSE ValidateEntities(entities, SelfEntities(<<>>), prov)

\* POST /api/batch-analyze: the JSON body returned.  nodata is `not data`,
\* the request's body being {}; b is the request's 'texts' (None for a
\* missing or null one).
BatchAnalyze(nodata, b, entities, score, prov, flt) ==
    IF nodata THEN ErrorResponse("No JSON data provided")
    ELSE IF b = {} THEN ErrorResponse("Validation failed")
    ELSE IF b = {<<>>} THEN ErrorResponse("Texts must be a non-empty list")
    ELSE IF flt = "get_analyzer" THEN ErrorResponse("Batch analysis failed")
    ELSE LET texts == CHOOSE l \in b : TRUE
             used == BatchEntities(entities, prov)
             entries == BatchResults(texts, used, ApiScore(score))
         IN [success          |-> TRUE,
             batch_results    |-> entries,
             batch_statistics |-> BatchStatistics(texts, entries),
             metadata         |->
                [entities_requested |->
                    IF used = <<>> THEN SelfEntities(<<>>) ELSE used,
                 score_threshold    |-> ApiScore(score)],
             timestamp        |-> Timestamp]

\* How many times the handler has the engine detect: once for each
\* non-empty string.
BatchCalls(b, flt) ==
    IF b = {} \/ b = {<<>>} \/ flt = "get_analyzer" THEN 0
    ELSE LET texts == CHOOSE l \in b : TRUE
         IN Cardinality({k \in 1..Len(texts) :
                IsStr(texts[k]) /\ AnalyzeCalls(texts[k].text) = 1})

(******************** upload handlers and FileProcessor *********************)

ALLOWED_EXTENSIONS ==
    {<<"t", "x", "t">>, <<"p", "d", "f">>, <<"d", "o", "c", "x">>,
     <<"x", "l", "s", "x">>, <<"c", "s", "v">>, <<"j", "s", "o", "n">>}

\* '.' in filename
HasDot(name) == \E i \in 1..Len(name) : name[i] = "."

\* Position of the last '.' of a name that has one.
LastDot(name) ==
    CHOOSE i \in 1..Len(name) :
        name[i] = "." /\ \A j \in (i + 1)..Len(name) : name[j] # "."

\* filename.rsplit('.', 1)[1].lower(); the model's names are lower case.
Extension(name) == SubSeq(name, LastDot(name) + 1, Len(name))

\* FileProcessor.is_supported_file
IsSupportedFile(name) ==
    /\ name # <<>>
    /\ HasDot(name)
    /\ Extension(name) \in ALLOWED_EXTENSIONS

RECURSIVE LStrip(_)
LStrip(name) ==
    IF name # <<>> /\ Head(name) \in {".", "_"} THEN LStrip(Tail(name))
    ELSE name

RECURSIVE RStrip(_)
RStrip(name) ==
    IF name # <<>> /\ name[Len(name)] \in {".", "_"}
    THEN RStrip(SubSeq(name, 1, Len(name) - 1))
    ELSE name

\* werkzeug's secure_filename, of a name of letters, digits, '.', '_' and
\* '-': what is left after .strip("._").
SecureFilename(name) == RStrip(LStrip(name))

\* float(request.form.get('score_threshold', Config.CONFIDENCE_THRESHOLD))
\* raises ValueError on a field that is no number.
FloatRaises(field) == field \notin {"", "0", "0.2"}

\* The threshold of the form, in ten-thousandths; "" is the absent field.
FormThreshold(field) ==
    CASE field = ""    -> CONFIDENCE_THRESHOLD
      [] field = "0"   -> 0
      [] field = "0.2" -> 2000

\* process_file raises FileNotFoundError when nothing is at file_path and
\* ValueError when the (secured) name has no supported extension.
ProcessRaises(exists, name) == ~exists \/ ~IsSupportedFile(name)

\* _process_text_file: file_data of a text without line breaks.
FileData(name, content) ==
    [filename  |-> name,
     file_type |-> "text",
     content   |-> content,
     metadata  |-> [size |-> Len(content), lines |-> 1, encoding |-> "utf-8"]]

\* file_data['content'][:500] + ('...' if len(file_data['content']) > 500
\* else '')
ContentPreview(t) ==
    PySlice(t, 0, 500) \o (IF Len(t) > 500 THEN <<".", ".", ".">> ELSE <<>>)

\* The message of the outer except of each handler.
FailedMessage(h) ==
    IF h = "analyze_file" THEN "File analysis failed"
    ELSE "File anonymization failed"

\* jsonify({...}) of analyze_file
AnalyzeFileReply(fd, rs, threshold) ==
    [success           |-> TRUE,
     file_info         |-> [filename  |-> fd.filename,
                            file_type |-> fd.file_type,
                            metadata  |-> fd.metadata],
     content_preview   |-> ContentPreview(fd.content),
     results           |-> rs,
     statistics        |-> GetStatistics(rs),
     analysis_metadata |-> [content_length     |-> Len(fd.content),
                            entities_requested |-> SelfEntities(<<>>),
                            language           |-> "en",
                            score_threshold    |-> threshold],
     timestamp         |-> Timestamp]

\* jsonify({...}) of anonymize_file
AnonymizeFileReply(fd, rs, an) ==
    [success            |-> TRUE,
     file_info          |-> [filename  |-> fd.filename,
                             file_type |-> fd.file_type,
                             metadata  |-> fd.metadata],
     original_content   |-> fd.content,
     anonymized_content |-> an.text,
     anonymized_items   |-> an.items,
     detected_entities  |-> rs,
     statistics         |-> GetStatistics(rs),
     timestamp          |-> Timestamp]

FinallyOnSuccessOnly(exc) == IF exc = "none" THEN "cleanup" ELSE "respond"

\* Where the handler goes when the inner try is left, by the return or by the
\* exception exc of a step: to its finally.
AfterInnerTry(exc) == "cleanup"

(*************************** PIIDetectionServer ****************************)

Unguarded(running) == TRUE

\* `if self.is_running:` of shutdown
ShutdownGuard(running) == running

\* A call of shutdown about to test is_running; kind tells who called it,
\* signal_handler or the finally of run.
Frame(kind) == [kind |-> kind, at |-> "test"]

\* Where an exception raised in run() (or reaching it from a signal handler
\* or a server) takes the main thread: the position, the shutdown calls left
\* on the stack and the exception run() will leave with.  Inside the finally
\* the exception ends run(); KeyboardInterrupt and Exception raised in the
\* try enter their except clause ("interrupted", "except"), and everything
\* else (SystemExit, or what is raised inside an except clause) goes to the
\* finally and on.
AfterRaise(at, exc) ==
    IF at = "finally"
    THEN [mpc |-> "finished", stack |-> <<>>, pending |-> exc]
    ELSE IF at \in {"except", "interrupted"}
    THEN [mpc |-> "finally", stack |-> <<Frame("finally")>>, pending |-> exc]
    ELSE IF exc = "KeyboardInterrupt"
    THEN [mpc |-> "interrupted", stack |-> <<>>, pending |-> "none"]
    ELSE IF exc = "Exception"
    THEN [mpc |-> "except", stack |-> <<>>, pending |-> "none"]
    ELSE [mpc |-> "finally", stack |-> <<Frame("finally")>>, pending |-> exc]

(****************************** inputs *************************************)

Alphabet == <<"a", "b", "c", "d", "e", "f">>

\* The longest text, every character of it different, and the empty text.
FullText == SubSeq(Alphabet, 1, MaxLen)
Texts == {<<>>, FullText}

\* Offsets a recognizer may report, the malformed ones included: a negative
\* start, an end past the text, an empty or reversed span.
Starts == -1 .. (MaxLen - 1)
Ends == 1 .. (MaxLen + 1)

\* (entity type, raw score) of the detections.
Labels == {<<"PERSON", 8996>>, <<"EMAIL_ADDRESS", 3004>>}

Candidates ==
    {[entity_type |-> l[1], start |-> s, end |-> e, score |-> l[2]] :
        l \in Labels, s \in Starts, e \in Ends}

ScoreArgs == {{}, {0}, {2000}, {9500}}

\* Result dicts a caller hands to anonymize_text; UK_NHS has no entry in the
\* default policy table.
ResultDicts ==
    {[entity_type |-> et, start |-> s, end |-> e, score |-> 9000] :
        et \in {"PERSON", "UK_NHS"}, s \in 0..(MaxLen - 1), e \in Ends}

PolicyEntries ==
    {Replace(<<"X">>),
     [type |-> "redact"],
     [type |-> "mask"],
     [type |-> "mask", masking_char |-> "*", chars_to_mask |-> 1,
      from_end |-> TRUE],
     [type |-> "hash"],
     [type |-> "encrypt"],
     [type |-> "custom"]}

\* Result dicts that lack a key, and policy tables with an entry that lacks
\* one.
BrokenDicts ==
    {[entity_type |-> "PERSON", start |-> 0, end |-> 1],
     [entity_type |-> "PERSON", end |-> 1, score |-> 9000]}
BrokenTables ==
    {[PERSON |-> [new_value |-> <<"X">>]],
     [PERSON |-> [type |-> "replace"]]}

PolicyTables ==
    {EmptyDict}
    \cup {[PERSON |-> e] : e \in PolicyEntries}
    \cup {[DEFAULT |-> [type |-> "redact"]],
          [PERSON |-> Replace(<<"X">>), DEFAULT |-> [type |-> "mask"]]}

ConfigArgs == {{}} \cup {{c} : c \in PolicyTables}

\* Entity types a request may name; BOGUS is one no recognizer knows.
EntityNames == {"PERSON", "EMAIL_ADDRESS", "UK_NHS", "BOGUS"}

\* Answers of the engine's get_supported_entities.
SupportedLists ==
    {<<"PERSON", "EMAIL_ADDRESS", "UK_NHS">>, <<"UK_NHS">>, <<>>}

\* Results handed to get_statistics: scores on both sides of 0.5 and 0.8 and
\* on them.
StatScores == {3000, 4960, 5000, 7960, 8000, 9000}
StatResults ==
    {[entity_type |-> et, score |-> sc] :
        et \in {"PERSON", "EMAIL_ADDRESS"}, sc \in StatScores}

\* The elements of a batch: a JSON number, the empty string, and the text
\* with what the recognizers find in it (or with a recognizer that raises).
Found(et, s, e, sc) == [entity_type |-> et, start |-> s, end |-> e, score |-> sc]
BatchItems ==
    {[kind |-> "number"],
     [kind |-> "str", text |-> <<>>, candidates |-> <<>>, fault |-> "none"],
     [kind |-> "str", text |-> FullText, candidates |-> <<>>, fault |-> "none"],
     [kind |-> "str", text |-> FullText, fault |-> "none",
      candidates |-> <<Found("PERSON", 0, 1, 8996)>>],
     [kind |-> "str", text |-> FullText, fault |-> "none",
      candidates |-> <<Found("EMAIL_ADDRESS", 1, 2, 9004),
                       Found("PERSON", 0, 1, 8996)>>],
     [kind |-> "str", text |-> FullText, fault |-> "none",
      candidates |-> <<Found("EMAIL_ADDRESS", 0, 1, 3004)>>],
     [kind |-> "str", text |-> FullText, candidates |-> <<>>,
      fault |-> "detector"]}

\* The text and the detector output of the specification's overlap example:
\* two spans of equal length that overlap, scores 0.6 and 0.9.
ExampleText == [i \in 1..15 |-> Alphabet[((i - 1) % 6) + 1]]
ExampleSpans ==
    <<Found("LOCATION", 0, 10, 6000), Found("PERSON", 5, 15, 9000)>>

NoAnon == [text |-> <<>>, items |-> <<>>]
NoResp == [success |-> FALSE, error |-> "no call"]
NoOperators == EmptyDict
NoStats == EmptyDict

\* A failing detector finds nothing to report.
DetectorInputs ==
    \/ fault = "none" /\ candidates \in SeqsUpTo(Candidates, MaxSpans)
    \/ fault = "detector" /\ candidates = <<>>

\* The arguments an operation does not take.
NoText == text = <<>> /\ candidates = <<>>
NoEntities == entitiesArg = <<>> /\ ctorEntities = <<>> /\ provider = {}
NoBatch == batch = {} /\ noData = FALSE

InitAnalyze ==
    /\ \/ op = "analyze_text" /\ scoreArg \in ScoreArgs /\ DetectorInputs
       \/ /\ op = "api_analyze" /\ scoreArg \in {{}, {0}}
          /\ \/ DetectorInputs
             \/ fault = "get_analyzer" /\ candidates = <<>>
    /\ text \in Texts
    /\ resultsArg = {}
    /\ configArg = {}
    /\ NoEntities /\ NoBatch

\* analyze_text on the overlap example, the detector answering in either
\* order, with threshold 0.5.
InitExample ==
    /\ op = "analyze_text"
    /\ text = ExampleText
    /\ candidates \in {ExampleSpans, <<ExampleSpans[2], ExampleSpans[1]>>}
    /\ scoreArg = {CONFIDENCE_THRESHOLD}
    /\ fault = "none"
    /\ resultsArg = {}
    /\ configArg = {}
    /\ NoEntities /\ NoBatch

\* Spans or a policy table that anonymize_text cannot read.
BrokenInputs ==
    \/ /\ resultsArg \in {{<<d>>} : d \in BrokenDicts}
               \cup {{<<g, d>>} : g \in ResultDicts, d \in BrokenDicts}
       /\ configArg = {}
    \/ /\ resultsArg \in {{<<g>>} : g \in ResultDicts}
       /\ configArg \in {{c} : c \in BrokenTables}

\* anonymize_text with the caller's spans, or with None and its own detection.
InitAnonymize ==
    /\ op = "anonymize_text"
    /\ text \in Texts
    /\ scoreArg = {}
    /\ \/ /\ resultsArg \in {{a} : a \in SeqsUpTo(ResultDicts, MaxSpans)}
          /\ candidates = <<>>
          /\ \/ fault = "none" /\ configArg \in ConfigArgs
             \/ fault = "engine" /\ configArg = {}
       \/ /\ resultsArg = {}
          /\ configArg = {}
          /\ DetectorInputs
       \/ /\ BrokenInputs
          /\ candidates = <<>>
          /\ fault = "none"
    /\ NoEntities /\ NoBatch

\* /api/anonymize with analyzer_results absent or empty (and something to
\* detect), or with the caller's spans.
InitApiAnonymize ==
    /\ op = "api_anonymize"
    /\ text \in Texts
    /\ \/ /\ resultsArg \in {{}, {<<>>}}
          /\ configArg = {}
          /\ scoreArg = {}
          /\ DetectorInputs
       \/ /\ resultsArg \in {{a} : a \in SeqsUpTo(ResultDicts, MaxSpans) \ {<<>>}}
          /\ configArg \in {{}, {[DEFAULT |-> [type |-> "redact"]]}}
          /\ scoreArg = {}
          /\ candidates = <<>>
          /\ fault \in {"none", "engine", "get_analyzer"}
       \/ /\ BrokenInputs
          /\ scoreArg = {}
          /\ candidates = <<>>
          /\ fault = "none"
    /\ NoEntities /\ NoBatch

InitValidateEntities ==
    /\ op = "validate_entities"
    /\ entitiesArg \in SeqsUpTo(EntityNames, MaxEntities)
    /\ ctorEntities \in {<<>>, <<"US_SSN", "PERSON">>}
    /\ provider \in {{}} \cup {{l} : l \in SupportedLists}
    /\ NoText /\ NoBatch
    /\ scoreArg = {} /\ resultsArg = {} /\ configArg = {} /\ fault = "none"

InitGetStatistics ==
    /\ op = "get_statistics"
    /\ resultsArg \in {{l} : l \in SeqsUpTo(StatResults, MaxResults)}
    /\ NoText /\ NoEntities /\ NoBatch
    /\ scoreArg = {} /\ configArg = {} /\ fault = "none"

\* /api/batch-analyze with the body {}, or with 'texts' null, empty or a list
\* of elements, the service's analyzer built or failing to build.
InitBatchAnalyze ==
    /\ op = "batch_analyze"
    /\ batch \in {{}} \cup {{b} : b \in SeqsUpTo(BatchItems, MaxBatch)}
    /\ ctorEntities = <<>>
    /\ \/ /\ fault = "none"
          /\ entitiesArg \in {<<>>, <<"PERSON">>, <<"BOGUS", "EMAIL_ADDRESS">>}
          /\ provider \in {{}, {<<"PERSON", "EMAIL_ADDRESS", "UK_NHS">>}}
       \/ fault = "get_analyzer" /\ entitiesArg = <<>> /\ provider = {}
    /\ noData \in (IF batch = {} /\ entitiesArg = <<>> THEN BOOLEAN
                   ELSE {FALSE})
    /\ NoText
    /\ scoreArg = {} /\ resultsArg = {} /\ configArg = {}

\* Uploaded names: none selected, a text file, a name secure_filename turns
\* into one without extension, and a type that is not allowed.
FileNames ==
    {<<>>, <<"a", ".", "t", "x", "t">>, <<".", "t", "x", "t">>,
     <<"a", ".", "e", "x", "e">>}

FormThresholds == {"", "0", "0.2", "x"}

\* What the recognizers find in the uploaded text.
FileFindings ==
    {<<>>,
     <<Found("PERSON", 0, 1, 8996)>>,
     <<Found("EMAIL_ADDRESS", 0, MaxLen, 3004), Found("PERSON", 0, 1, 8996)>>}

\* The multipart requests: tooLarge is a body over MAX_CONTENT_LENGTH,
\* hasFile is 'file' in request.files.
Uploads ==
    [tooLarge : BOOLEAN, hasFile : BOOLEAN, filename : FileNames,
     threshold : FormThresholds, content : Texts, found : FileFindings]

NoFile ==
    [tooLarge |-> FALSE, hasFile |-> FALSE, filename |-> <<>>,
     threshold |-> "", content |-> <<>>, found |-> <<>>]

\* No upload is being handled: the state of the handlers outside SpecFile.
NoUpload ==
    /\ handler = "none"
    /\ upload = NoFile
    /\ fpc = "idle"
    /\ onDisk = FALSE
    /\ saved = FALSE
    /\ cleanups = 0
    /\ raised = "none"
    /\ fdata = FileData(<<>>, <<>>)
    /\ fresults = <<>>
    /\ fanon = NoAnon
    /\ fresp = NoResp

\* PIIDetectionServer.__init__, run() not yet called.
NoServer ==
    /\ is_running = FALSE
    /\ started = FALSE
    /\ mpc = "created"
    /\ stack = <<>>
    /\ installed = {}
    /\ pending = "none"
    /\ cleared = 0
    /\ removed = 0
    /\ tempExists = FALSE
    /\ signals = 0

\* GET /api/health and GET /api/entities, the engine naming its entities or
\* raising, the service's analyzer built or failing to build.
InitApiGet ==
    /\ op \in {"api_health", "api_entities"}
    /\ \/ fault = "none" /\ provider \in {{}} \cup {{l} : l \in SupportedLists}
       \/ fault = "get_analyzer" /\ provider = {}
    /\ entitiesArg = <<>> /\ ctorEntities = <<>>
    /\ NoText /\ NoBatch
    /\ scoreArg = {} /\ resultsArg = {} /\ configArg = {}

\* The CLI command test-analyzer, the recognizers answering or raising, the
\* service's analyzer built or failing to build.
InitTestAnalyzer ==
    /\ op = "test_analyzer"
    /\ fault \in {"none", "detector", "get_analyzer"}
    /\ NoEntities
    /\ NoText /\ NoBatch
    /\ scoreArg = {} /\ resultsArg = {} /\ configArg = {}

\* The operations that call get_analyzer().
ApiOps == {"api_analyze", "api_anonymize", "batch_analyze", "api_health",
           "api_entities", "test_analyzer"}

\* _analyzer_instance when the call is made.  A request finds it None (the
\* warm-up failed) or set by the warm-up or an earlier request, and the
\* constructor can only raise when it is None; a method is called on a
\* PIIAnalyzer of the caller's.
AnalyzerAtCall ==
    /\ instance \in (IF op \in ApiOps /\ fault # "get_analyzer" THEN {0, 1}
                     ELSE {0})
    /\ built = instance
    /\ warmup = (IF op \notin ApiOps THEN "pending"
                 ELSE IF instance = 0 THEN "failed" ELSE "ok")
    /\ tpc = [t \in Threads |-> "idle"]
    /\ got = [t \in Threads |-> 0]

Init ==
    /\ pc = "ready"
    /\ \/ InitAnalyze
       \/ InitExample
       \/ InitAnonymize
       \/ InitApiAnonymize
       \/ InitValidateEntities
       \/ InitGetStatistics
       \/ InitBatchAnalyze
       \/ InitApiGet
       \/ InitTestAnalyzer
    /\ results = <<>>
    /\ anon = NoAnon
    /\ operators = NoOperators
    /\ resp = NoResp
    /\ stats = NoStats
    /\ valid = <<>>
    /\ detectCalls = 0
    /\ engineCalls = 0
    /\ AnalyzerAtCall
    /\ NoUpload
    /\ NoServer

(****************************** actions ************************************)

Inputs == <<op, text, candidates, scoreArg, resultsArg, configArg, fault,
            entitiesArg, ctorEntities, provider, batch, noData>>

\* The handler's get_analyzer() call, if it gets that far.
Gets(reached) ==
    /\ instance' = IF reached THEN GetAnalyzer(instance, built, fault).instance
                   ELSE instance
    /\ built' = IF reached THEN GetAnalyzer(instance, built, fault).built
                ELSE built
    /\ UNCHANGED <<warmup, tpc, got>>

\* PIIAnalyzer.analyze_text(text, score_threshold=scoreArg)
CallAnalyzeText ==
    /\ pc = "ready" /\ op = "analyze_text"
    /\ results' = AnalyzeText(text, <<>>, scoreArg, candidates, fault)
    /\ detectCalls' = AnalyzeCalls(text)
    /\ pc' = "done"
    /\ UNCHANGED <<analyzerVars, fileVars, serverVars>>
    /\ UNCHANGED <<Inputs, anon, operators, resp, stats, valid, engineCalls>>

\* PIIAnalyzer.anonymize_text(text, resultsArg, configArg)
CallAnonymizeText ==
    /\ pc = "ready" /\ op = "anonymize_text"
    /\ anon' = AnonymizeText(text, resultsArg, configArg, candidates, fault)
    /\ operators' = AnonymizeOperators(text, resultsArg, configArg, candidates, fault)
    /\ results' = IF text = <<>> THEN <<>>
                  ELSE AnalyzerResults(text, resultsArg, candidates, fault)
    /\ detectCalls' = AnonymizeCalls(text, resultsArg)
    /\ engineCalls' = EngineCalls(text, resultsArg, configArg, candidates, fault)
    /\ pc' = "done"
    /\ UNCHANGED <<analyzerVars, fileVars, serverVars>>
    /\ UNCHANGED <<Inputs, resp, stats, valid>>

\* PIIAnalyzer.validate_entities(entitiesArg)
CallValidateEntities ==
    /\ pc = "ready" /\ op = "validate_entities"
    /\ valid' = ValidateEntities(entitiesArg, SelfEntities(ctorEntities), provider)
    /\ pc' = "done"
    /\ UNCHANGED <<analyzerVars, fileVars, serverVars>>
    /\ UNCHANGED <<Inputs, results, anon, operators, resp, stats,
                   detectCalls, engineCalls>>

\* PIIAnalyzer.get_statistics(results)
CallGetStatistics ==
    /\ pc = "ready" /\ op = "get_statistics"
    /\ stats' = GetStatistics(CHOOSE l \in resultsArg : TRUE)
    /\ pc' = "done"
    /\ UNCHANGED <<analyzerVars, fileVars, serverVars>>
    /\ UNCHANGED <<Inputs, results, anon, operators, resp, valid,
                   detectCalls, engineCalls>>

\* POST /api/analyze {text, score_threshold}
CallApiAnalyze ==
    /\ pc = "ready" /\ op = "api_analyze"
    /\ resp' = ApiAnalyze(text, scoreArg, candidates, fault)
    /\ results' = IF resp'.success THEN resp'.results ELSE <<>>
    /\ stats' = IF resp'.success THEN resp'.statistics ELSE NoStats
    /\ detectCalls' = IF resp'.success THEN AnalyzeCalls(text) ELSE 0
    /\ pc' = "done"
    /\ Gets(TextReaches(text))
    /\ UNCHANGED <<fileVars, serverVars>>
    /\ UNCHANGED <<Inputs, anon, operators, valid, engineCalls>>

\* POST /api/anonymize {text, analyzer_results, anonymization_config,
\* score_threshold}
CallApiAnonymize ==
    /\ pc = "ready" /\ op = "api_anonymize"
    /\ resp' = ApiAnonymize(text, resultsArg, configArg, scoreArg, candidates, fault)
    /\ results' = IF resp'.success THEN resp'.detected_entities ELSE <<>>
    /\ anon' = IF resp'.success
               THEN [text |-> resp'.anonymized_text,
                     items |-> resp'.anonymized_items]
               ELSE NoAnon
    /\ operators' = IF resp'.success
                    THEN AnonymizeOperators(text, {results'}, configArg,
                                            candidates, fault)
                    ELSE NoOperators
    /\ stats' = IF resp'.success THEN resp'.statistics ELSE NoStats
    /\ detectCalls' = IF resp'.success
                      THEN ApiAnonymizeCalls(text, resultsArg) ELSE 0
    /\ engineCalls' = IF resp'.success
                      THEN EngineCalls(text, {results'}, configArg,
                                       candidates, fault)
                      ELSE 0
    /\ pc' = "done"
    /\ Gets(TextReaches(text))
    /\ UNCHANGED <<fileVars, serverVars>>
    /\ UNCHANGED <<Inputs, valid>>

\* POST /api/batch-analyze {texts, entities}
CallBatchAnalyze ==
    /\ pc = "ready" /\ op = "batch_analyze"
    /\ resp' = BatchAnalyze(noData, batch, entitiesArg, scoreArg, provider, fault)
    /\ valid' = IF resp'.success THEN BatchEntities(entitiesArg, provider)
                ELSE <<>>
    /\ detectCalls' = BatchCalls(batch, fault)
    /\ pc' = "done"
    /\ Gets(BatchReaches(noData, batch))
    /\ UNCHANGED <<fileVars, serverVars>>
    /\ UNCHANGED <<Inputs, results, anon, operators, stats, engineCalls>>

\* GET /api/health
CallApiHealth ==
    /\ pc = "ready" /\ op = "api_health"
    /\ resp' = ApiHealth(provider, fault)
    /\ pc' = "done"
    /\ Gets(TRUE)
    /\ UNCHANGED <<fileVars, serverVars>>
    /\ UNCHANGED <<Inputs, results, anon, operators, stats, valid,
                   detectCalls, engineCalls>>

\* GET /api/entities
CallApiEntities ==
    /\ pc = "ready" /\ op = "api_entities"
    /\ resp' = ApiEntities(provider, fault)
    /\ pc' = "done"
    /\ Gets(TRUE)
    /\ UNCHANGED <<fileVars, serverVars>>
    /\ UNCHANGED <<Inputs, results, anon, operators, stats, valid,
                   detectCalls, engineCalls>>

\* flask test-analyzer: get_analyzer(), analyze_text on each test text, the
\* findings printed; the command returns nothing, and prints "Test failed"
\* when get_analyzer() raised.
CallTestAnalyzer ==
    /\ pc = "ready" /\ op = "test_analyzer"
    /\ detectCalls' = TestAnalyzerCalls(fault)
    /\ pc' = "done"
    /\ Gets(TRUE)
    /\ UNCHANGED <<fileVars, serverVars>>
    /\ UNCHANGED <<Inputs, results, anon, operators, resp, stats, valid,
                   engineCalls>>

Next ==
    \/ CallAnalyzeText
    \/ CallAnonymizeText
    \/ CallValidateEntities
    \/ CallGetStatistics
    \/ CallApiAnalyze
    \/ CallApiAnonymize
    \/ CallBatchAnalyze
    \/ CallApiHealth
    \/ CallApiEntities
    \/ CallTestAnalyzer

Spec == Init /\ [][Next]_vars

(******************* get_analyzer under concurrent requests ****************)

\* No call of Spec is made in the specifications of the stepwise code.
NoCall ==
    /\ pc = "idle" /\ op = "none"
    /\ text = <<>> /\ candidates = <<>>
    /\ scoreArg = {} /\ resultsArg = {} /\ configArg = {} /\ fault = "none"
    /\ NoEntities /\ NoBatch
    /\ results = <<>>
    /\ anon = NoAnon
    /\ operators = NoOperators
    /\ resp = NoResp
    /\ stats = NoStats
    /\ valid = <<>>
    /\ detectCalls = 0
    /\ engineCalls = 0

InitAnalyzer == NoCall /\ NoThreads /\ NoUpload /\ NoServer

\* create_app calls get_analyzer() before any request is served; PIIAnalyzer
\* is built and stored, or its constructor raises and the except of create_app
\* logs it, leaving _analyzer_instance None.
WarmUp ==
    /\ warmup = "pending"
    /\ \/ /\ warmup' = "ok"
          /\ built' = built + 1
          /\ instance' = built + 1
       \/ /\ warmup' = "failed"
          /\ UNCHANGED <<built, instance>>
    /\ UNCHANGED <<tpc, got, callVars, fileVars, serverVars>>

\* A request thread enters get_analyzer and tests `_analyzer_instance is
\* None`.
Check(t) ==
    /\ warmup # "pending"
    /\ tpc[t] = "idle"
    /\ tpc' = [tpc EXCEPT ![t] = IF IsNone(instance) THEN "construct"
                                 ELSE "return"]
    /\ UNCHANGED <<instance, built, warmup, got, callVars, fileVars, serverVars>>

\* PIIAnalyzer(language=language, entities=entities) and the store into
\* _analyzer_instance; other threads run while the models load.  The
\* constructor may raise, and get_analyzer with it.
Construct(t) ==
    /\ tpc[t] = "construct"
    /\ \/ /\ built' = built + 1
          /\ tpc' = [tpc EXCEPT ![t] = "assign"]
          /\ got' = [got EXCEPT ![t] = built + 1]
       \/ /\ tpc' = [tpc EXCEPT ![t] = "raised"]
          /\ UNCHANGED <<built, got>>
    /\ UNCHANGED <<instance, warmup, callVars, fileVars, serverVars>>

\* `_analyzer_instance = <the object just built>`
Assign(t) ==
    /\ tpc[t] = "assign"
    /\ instance' = got[t]
    /\ tpc' = [tpc EXCEPT ![t] = "return"]
    /\ got' = [got EXCEPT ![t] = 0]
    /\ UNCHANGED <<built, warmup, callVars, fileVars, serverVars>>

\* `return _analyzer_instance`
Return(t) ==
    /\ tpc[t] = "return"
    /\ got' = [got EXCEPT ![t] = instance]
    /\ tpc' = [tpc EXCEPT ![t] = "done"]
    /\ UNCHANGED <<instance, built, warmup, callVars, fileVars, serverVars>>

NextAnalyzer ==
    \/ WarmUp
    \/ \E t \in Threads : Check(t) \/ Construct(t) \/ Assign(t) \/ Return(t)

SpecAnalyzer == InitAnalyzer /\ [][NextAnalyzer]_vars

(************************ the upload handlers ******************************)

\* A request finds _analyzer_instance None (the warm-up failed) or set.
InitFile ==
    /\ NoCall /\ NoServer
    /\ instance \in {0, 1}
    /\ built = instance
    /\ warmup = (IF instance = 0 THEN "failed" ELSE "ok")
    /\ tpc = [t \in Threads |-> "idle"]
    /\ got = [t \in Threads |-> 0]
    /\ handler \in {"analyze_file", "anonymize_file"}
    /\ upload \in Uploads
    /\ fpc = "request"
    /\ onDisk = FALSE
    /\ saved = FALSE
    /\ cleanups = 0
    /\ raised = "none"
    /\ fdata = FileData(<<>>, <<>>)
    /\ fresults = <<>>
    /\ fanon = NoAnon
    /\ fresp = NoResp

outsideFile == <<callVars, warmup, tpc, got, serverVars>>

\* The handler up to the inner try: the checks of the request, each with its
\* early return, and the form fields.
Request ==
    /\ fpc = "request"
    /\ LET refused ==
               upload.tooLarge \/ ~upload.hasFile \/ upload.filename = <<>>
               \/ FloatRaises(upload.threshold)
               \/ ~IsSupportedFile(upload.filename)
           message ==
               IF upload.tooLarge THEN "File too large"
               ELSE IF ~upload.hasFile THEN "No file uploaded"
               ELSE IF upload.filename = <<>> THEN "No file selected"
               ELSE IF FloatRaises(upload.threshold) THEN FailedMessage(handler)
               ELSE "Unsupported file type"
       IN IF refused
          THEN fresp' = ErrorResponse(message) /\ fpc' = "done"
          ELSE fpc' = "save" /\ UNCHANGED fresp
    /\ UNCHANGED <<handler, upload, onDisk, saved, cleanups, raised, fdata,
                   fresults, fanon, outsideFile, instance, built>>

\* file.save(file_path): the file is written, or the save raises and leaves
\* a file behind or none.
Save ==
    /\ fpc = "save"
    /\ saved' = TRUE
    /\ \/ /\ onDisk' = TRUE
          /\ fpc' = "process"
          /\ UNCHANGED raised
       \/ /\ onDisk' \in BOOLEAN
          /\ raised' = "save"
          /\ fpc' = AfterInnerTry("save")
    /\ UNCHANGED <<handler, upload, cleanups, fdata, fresults, fanon, fresp,
                   outsideFile, instance, built>>

\* processor.process_file(file_path, filename): file_data, or an exception of
\* its own checks or of reading the file.
Process ==
    /\ fpc = "process"
    /\ \/ /\ ~ProcessRaises(onDisk, SecureFilename(upload.filename))
          /\ fdata' = FileData(SecureFilename(upload.filename), upload.content)
          /\ fpc' = "analyze"
          /\ UNCHANGED raised
       \/ /\ raised' = "process"
          /\ fpc' = AfterInnerTry("process")
          /\ UNCHANGED fdata
    /\ UNCHANGED <<handler, upload, onDisk, saved, cleanups, fresults, fanon,
                   fresp, outsideFile, instance, built>>

\* get_analyzer(), which builds the PIIAnalyzer if there is none and raises
\* when it cannot be built, and analyzer.analyze_text(...); the form names no
\* entities.
Analyze ==
    /\ fpc = "analyze"
    /\ \/ /\ IsNone(instance)
          /\ raised' = "analyze"
          /\ fpc' = AfterInnerTry("analyze")
          /\ instance' = GetAnalyzer(instance, built, "get_analyzer").instance
          /\ built' = GetAnalyzer(instance, built, "get_analyzer").built
          /\ UNCHANGED fresults
       \/ \E flt \in {"none", "detector"} :
          /\ fresults' = AnalyzeText(fdata.content, <<>>,
                                     {FormThreshold(upload.threshold)},
                                     upload.found, flt)
          /\ fpc' = IF handler = "anonymize_file" THEN "anonymize" ELSE "reply"
          /\ instance' = GetAnalyzer(instance, built, "none").instance
          /\ built' = GetAnalyzer(instance, built, "none").built
          /\ UNCHANGED raised
    /\ UNCHANGED <<handler, upload, onDisk, saved, cleanups, fdata, fanon,
                   fresp, outsideFile>>

\* analyzer.anonymize_text(...) of anonymize_file; the form carries no
\* anonymization_config.
Anonymize ==
    /\ fpc = "anonymize"
    /\ \E flt \in {"none", "engine"} :
          fanon' = AnonymizeText(fdata.content, {fresults}, {}, upload.found,
                                 flt)
    /\ fpc' = "reply"
    /\ UNCHANGED <<handler, upload, onDisk, saved, cleanups, raised, fdata,
                   fresults, fresp, outsideFile, instance, built>>

\* return jsonify({...}): the body is built, get_statistics included, and
\* the try is left.
Reply ==
    /\ fpc = "reply"
    /\ fresp' = IF handler = "analyze_file"
                THEN AnalyzeFileReply(fdata, fresults,
                                      FormThreshold(upload.threshold))
                ELSE AnonymizeFileReply(fdata, fresults, fanon)
    /\ fpc' = AfterInnerTry("none")
    /\ UNCHANGED <<handler, upload, onDisk, saved, cleanups, raised, fdata,
                   fresults, fanon, outsideFile, instance, built>>

\* finally: processor.cleanup_file(file_path).  cleanup_file removes the file
\* if there is one; os.remove failing is logged and the file stays.
Cleanup ==
    /\ fpc = "cleanup"
    /\ cleanups' = cleanups + 1
    /\ onDisk' \in (IF onDisk THEN BOOLEAN ELSE {FALSE})
    /\ fpc' = "respond"
    /\ UNCHANGED <<handler, upload, saved, raised, fdata, fresults, fanon,
                   fresp, outsideFile, instance, built>>

\* The response leaves the handler: the body built, or handle_error of the
\* outer except when a step raised.
Respond ==
    /\ fpc = "respond"
    /\ fresp' = IF raised = "none" THEN fresp
                ELSE ErrorResponse(FailedMessage(handler))
    /\ fpc' = "done"
    /\ UNCHANGED <<handler, upload, onDisk, saved, cleanups, raised, fdata,
                   fresults, fanon, outsideFile, instance, built>>

NextFile ==
    \/ Request
    \/ Save
    \/ Process
    \/ Analyze
    \/ Anonymize
    \/ Reply
    \/ Cleanup
    \/ Respond

SpecFile == InitFile /\ [][NextFile]_vars

(********************** the run of PIIDetectionServer ***********************)

\* Importing run.py imports app.py, whose module-level create_app() has made
\* the warm-up call already: _analyzer_instance is set, or None if it failed.
InitServer ==
    /\ NoCall /\ NoUpload
    /\ instance \in {0, 1}
    /\ built = instance
    /\ warmup = (IF instance = 0 THEN "failed" ELSE "ok")
    /\ tpc = [t \in Threads |-> "idle"]
    /\ got = [t \in Threads |-> 0]
    /\ is_running = FALSE
    /\ started = FALSE
    /\ mpc = "created"
    /\ stack = <<>>
    /\ installed = {}
    /\ pending = "none"
    /\ cleared = 0
    /\ removed = 0
    /\ tempExists \in BOOLEAN
    /\ signals = 0

outsideServer == <<callVars, tpc, got, fileVars>>

\* The main thread goes where AfterRaise says.
Raise(exc) ==
    /\ mpc' = AfterRaise(mpc, exc).mpc
    /\ stack' = AfterRaise(mpc, exc).stack
    /\ pending' = AfterRaise(mpc, exc).pending

\* main(): server.run() enters its try.
Run ==
    /\ mpc = "created"
    /\ mpc' = "setup_directories"
    /\ UNCHANGED <<is_running, started, stack, installed, pending, cleared,
                   removed, tempExists, signals, outsideServer, instance, built, warmup>>

\* self.setup_directories(): logs, uploads and temp exist afterwards, or
\* mkdir raises.
SetupDirectories ==
    /\ mpc = "setup_directories" /\ stack = <<>>
    /\ \/ /\ tempExists' = TRUE
          /\ mpc' = "install_sigint"
          /\ UNCHANGED <<stack, pending>>
       \/ /\ Raise("Exception")
          /\ UNCHANGED tempExists
    /\ UNCHANGED <<is_running, started, installed, cleared, removed, signals,
                   outsideServer, instance, built, warmup>>

\* signal.signal(signal.SIGINT, signal_handler)
InstallSigint ==
    /\ mpc = "install_sigint" /\ stack = <<>>
    /\ installed' = installed \cup {"SIGINT"}
    /\ mpc' = "install_sigterm"
    /\ UNCHANGED <<is_running, started, stack, pending, cleared, removed,
                   tempExists, signals, outsideServer, instance, built, warmup>>

\* signal.signal(signal.SIGTERM, signal_handler)
InstallSigterm ==
    /\ mpc = "install_sigterm" /\ stack = <<>>
    /\ installed' = installed \cup {"SIGTERM"}
    /\ mpc' = "validate_environment"
    /\ UNCHANGED <<is_running, started, stack, pending, cleared, removed,
                   tempExists, signals, outsideServer, instance, built, warmup>>

\* self.validate_environment() returns or raises RuntimeError.
ValidateEnvironment ==
    /\ mpc = "validate_environment" /\ stack = <<>>
    /\ \/ /\ mpc' = "start_server"
          /\ UNCHANGED <<stack, pending>>
       \/ Raise("Exception")
    /\ UNCHANGED <<is_running, started, installed, cleared, removed,
                   tempExists, signals, outsideServer, instance, built, warmup>>

\* start_development_server or start_production_server calls
\* create_application(): create_app runs up to the test of get_analyzer() in
\* its warm-up, or raises before it.  With an instance stored the warm-up
\* succeeds at once.
CreateApplication ==
    /\ mpc = "start_server" /\ stack = <<>>
    /\ \/ /\ ~IsNone(instance)
          /\ warmup' = "ok"
          /\ mpc' = "application_created"
          /\ UNCHANGED <<stack, pending>>
       \/ /\ IsNone(instance)
          /\ mpc' = "construct_analyzer"
          /\ UNCHANGED <<warmup, stack, pending>>
       \/ /\ Raise("Exception")
          /\ UNCHANGED warmup
    /\ UNCHANGED <<is_running, started, installed, cleared, removed,
                   tempExists, signals, outsideServer, instance, built>>

\* get_analyzer: PIIAnalyzer(language=language, entities=entities) returns a
\* new analyzer, not stored yet, or raises and the except of create_app logs
\* the failed warm-up.
ConstructAnalyzer ==
    /\ mpc = "construct_analyzer" /\ stack = <<>>
    /\ \/ /\ built' = built + 1
          /\ mpc' = "store_analyzer"
          /\ UNCHANGED warmup
       \/ /\ warmup' = "failed"
          /\ mpc' = "application_created"
          /\ UNCHANGED built
    /\ UNCHANGED <<is_running, started, stack, installed, pending, cleared,
                   removed, tempExists, signals, outsideServer, instance>>

\* get_analyzer: `_analyzer_instance = ...` stores the analyzer just built,
\* and the warm-up succeeds.
StoreAnalyzer ==
    /\ mpc = "store_analyzer" /\ stack = <<>>
    /\ instance' = built
    /\ warmup' = "ok"
    /\ mpc' = "application_created"
    /\ UNCHANGED <<is_running, started, stack, installed, pending, cleared,
                   removed, tempExists, signals, outsideServer, built>>

\* The start method from the return of the warm-up to `self.is_running =
\* True`: the flag is set, or the rest of create_app or reading the server's
\* configuration raises.
StartServer ==
    /\ mpc = "application_created" /\ stack = <<>>
    /\ \/ /\ is_running' = TRUE
          /\ started' = TRUE
          /\ mpc' = "serving"
          /\ UNCHANGED <<stack, pending>>
       \/ /\ Raise("Exception")
          /\ UNCHANGED <<is_running, started>>
    /\ UNCHANGED <<installed, cleared, removed, tempExists, signals,
                   outsideServer, instance, built, warmup>>

\* app.run(...) or the gunicorn application ends: it returns, raises (the
\* except of the start method re-raises), or exits with SystemExit.
ServerStops ==
    /\ mpc = "serving" /\ stack = <<>>
    /\ \/ /\ mpc' = "finally"
          /\ stack' = <<Frame("finally")>>
          /\ UNCHANGED pending
       \/ Raise("Exception")
       \/ Raise("SystemExit")
    /\ UNCHANGED <<is_running, started, installed, cleared, removed,
                   tempExists, signals, outsideServer, instance, built, warmup>>

\* except Exception of run(): sys.exit(1)
ExitOnFailure ==
    /\ mpc = "except" /\ stack = <<>>
    /\ Raise("SystemExit")
    /\ UNCHANGED <<is_running, started, installed, cleared, removed,
                   tempExists, signals, outsideServer, instance, built, warmup>>

\* except KeyboardInterrupt of run(): logger.info("Server stopped by user"),
\* then the finally.
StoppedByUser ==
    /\ mpc = "interrupted" /\ stack = <<>>
    /\ mpc' = "finally"
    /\ stack' = <<Frame("finally")>>
    /\ UNCHANGED <<is_running, started, installed, pending, cleared, removed,
                   tempExists, signals, outsideServer, instance, built, warmup>>

\* The innermost shutdown call.
Top == stack[Len(stack)]

Step(at) == [stack EXCEPT ![Len(stack)].at = at]

\* shutdown: `if self.is_running:`
Test ==
    /\ stack # <<>> /\ Top.at = "test"
    /\ stack' = Step(IF ShutdownGuard(is_running) THEN "clear" ELSE "end")
    /\ UNCHANGED <<is_running, started, mpc, installed, pending, cleared,
                   removed, tempExists, signals, outsideServer, instance, built, warmup>>

\* shutdown: `self.is_running = False`
Clear ==
    /\ stack # <<>> /\ Top.at = "clear"
    /\ is_running' = FALSE
    /\ cleared' = cleared + 1
    /\ stack' = Step("remove")
    /\ UNCHANGED <<started, mpc, installed, pending, removed, tempExists,
                   signals, outsideServer, instance, built, warmup>>

\* shutdown: shutil.rmtree(temp_dir) if temp exists; its failure is logged.
Remove ==
    /\ stack # <<>> /\ Top.at = "remove"
    /\ IF tempExists
       THEN removed' = removed + 1 /\ tempExists' \in BOOLEAN
       ELSE UNCHANGED <<removed, tempExists>>
    /\ stack' = Step("end")
    /\ UNCHANGED <<is_running, started, mpc, installed, pending, cleared,
                   signals, outsideServer, instance, built, warmup>>

\* shutdown returns.  To signal_handler: sys.exit(0), and SystemExit leaves
\* every call the handler interrupted.  To the finally of run(): run() ends,
\* with the exception that was on its way if there was one.
End ==
    /\ stack # <<>> /\ Top.at = "end"
    /\ IF Top.kind = "handler"
       THEN Raise("SystemExit")
       ELSE mpc' = "finished" /\ stack' = <<>> /\ UNCHANGED pending
    /\ UNCHANGED <<is_running, started, installed, cleared, removed,
                   tempExists, signals, outsideServer, instance, built, warmup>>

\* SIGINT or SIGTERM arrives while run() is under way.  With signal_handler
\* installed the main thread calls it on top of what it was doing; before
\* that SIGINT raises KeyboardInterrupt there and SIGTERM ends the process.
Signal(sig) ==
    /\ signals < MaxSignals
    /\ mpc \notin {"created", "finished", "killed"}
    /\ signals' = signals + 1
    /\ IF sig \in installed
       THEN stack' = Append(stack, Frame("handler")) /\ UNCHANGED <<mpc, pending>>
       ELSE IF sig = "SIGINT"
       THEN Raise("KeyboardInterrupt")
       ELSE mpc' = "killed" /\ stack' = <<>> /\ UNCHANGED pending
    /\ UNCHANGED <<is_running, started, installed, cleared, removed,
                   tempExists, outsideServer, instance, built, warmup>>

NextServer ==
    \/ Run
    \/ SetupDirectories
    \/ InstallSigint
    \/ InstallSigterm
    \/ ValidateEnvironment
    \/ CreateApplication
    \/ ConstructAnalyzer
    \/ StoreAnalyzer
    \/ StartServer
    \/ ServerStops
    \/ ExitOnFailure
    \/ StoppedByUser
    \/ Test
    \/ Clear
    \/ Remove
    \/ End
    \/ \E sig \in {"SIGINT", "SIGTERM"} : Signal(sig)

SpecServer == InitServer /\ [][NextServer]_vars

(****************************** claims *************************************)

Done(o) == pc = "done" /\ op = o

\* The caller's own span list (analyzer_results was given).
Given == CHOOSE a \in resultsArg : TRUE

\* The policy table the call works with.
Table == PolicyTable(configArg)

\* A span the spec calls malformed for a text of length n.
Malformed(s, n) == s.start < 0 \/ s.end > n \/ s.start >= s.end

WellFormedAll(s, n) == \A i \in 1..Len(s) : ~Malformed(s[i], n)

\* No two spans of the list overlap, in whatever order they are listed.
PairwiseDisjoint(s) ==
    \A i, j \in 1..Len(s) :
        i < j => (s[i].end <= s[j].start \/ s[j].end <= s[i].start)

IsSortedByStart(s) == \A i \in 1..(Len(s) - 1) : s[i].start <= s[i + 1].start

\* The left-to-right splice of spec 4.3: the text between the edits copied,
\* each edit's replacement written in its place.  edits is ascending and
\* non-overlapping; pos is where the previous edit ended.
RECURSIVE Splice(_, _, _)
Splice(t, edits, pos) ==
    IF edits = <<>> THEN SubSeq(t, pos + 1, Len(t))
    ELSE SubSeq(t, pos + 1, Head(edits).start)
         \o Head(edits).replacement
         \o Splice(t, Tail(edits), Head(edits).end)

\* The edits the registered operators make of a span list.
Edits(t, spans, ops) ==
    [i \in 1..Len(spans) |->
        [start |-> spans[i].start,
         end   |-> spans[i].end,
         replacement |->
            Operate(EngineOperator(ops, spans[i].entity_type),
                    spans[i].entity_type,
                    SubSeq(t, spans[i].start + 1, spans[i].end))]]

\* The edits the audit items describe, their offsets read as offsets of the
\* original text.
ItemEdits(items) ==
    [i \in 1..Len(items) |->
        [start |-> items[i].start, end |-> items[i].end,
         replacement |-> items[i].text]]

\* All the orders a detector may return the same spans in.
Permuted(s) ==
    {[i \in 1..Len(s) |-> s[p[i]]] :
        p \in {q \in [1..Len(s) -> 1..Len(s)] :
                 \A i, j \in 1..Len(s) : q[i] = q[j] => i = j}}

\* The detector reported well-formed spans only (malformed ones are C4's).
CleanDetection == WellFormedAll(candidates, Len(text))

\* C1: no two spans of the list analyze_text returns overlap: each one ends
\* at or before the start of the next.  Stated for the detector outputs most
\* favourable to the claim, those without malformed spans.
C1_NoOverlap ==
    (Done("analyze_text") /\ CleanDetection) =>
        \A i \in 1..(Len(results) - 1) : results[i].end <= results[i + 1].start

\* C2: the list analyze_text returns is in non-decreasing order of start
\* offset, whatever the detector returned.
C2_SortedByStart ==
    Done("analyze_text") => IsSortedByStart(results)

\* C2 witness: the detector returned two spans in descending start order and
\* analyze_text returned both.
C2_Witness ==
    /\ Done("analyze_text")
    /\ Len(results) = 2
    /\ Len(candidates) = 2
    /\ candidates[1].start > candidates[2].start

\* C3: the list analyze_text returns is the same, members and order, for
\* every order in which the detector may return the same (well-formed) spans.
C3_OrderIndependent ==
    (Done("analyze_text") /\ CleanDetection) =>
        \A q \in Permuted(candidates) :
            AnalyzeText(text, <<>>, scoreArg, q, fault) = results

\* C4: a malformed span never appears in the list analyze_text returns, and
\* when one is among the analyzer_results given to anonymize_text the
\* well-formed spans are still rewritten.
C4_MalformedExcluded ==
    /\ Done("analyze_text") =>
          \A i \in 1..Len(results) : ~Malformed(results[i], Len(text))
    /\ (Done("anonymize_text") /\ resultsArg # {} /\ fault = "none"
          /\ text # <<>> /\ ~ConvertRaises(Given)
          /\ ~ConfigRaises(Table)) =>
          LET good == SelectSeq(Given, LAMBDA s : ~Malformed(s, Len(text)))
          IN PairwiseDisjoint(good) =>
                anon.text = Splice(text,
                                Edits(text, SortByStart(good), operators), 0)

\* The threshold the caller asked for, the configured default when none.
AskedThreshold ==
    IF scoreArg = {} THEN CONFIDENCE_THRESHOLD ELSE CHOOSE v \in scoreArg : TRUE

\* The span c of the detector is in the returned list.
Kept(c) ==
    \E j \in 1..Len(results) :
        /\ results[j].entity_type = c.entity_type
        /\ results[j].start = c.start
        /\ results[j].end = c.end
        /\ results[j].score = Round3(c.score)

\* C5: analyze_text keeps exactly the (well-formed) spans whose score reaches
\* the caller's score_threshold, 0 included, and uses the configured default
\* only when the caller gives none.
C5_CallerThreshold ==
    ((Done("analyze_text") \/ Done("api_analyze")) /\ fault = "none"
        /\ text # <<>> /\ CleanDetection) =>
        \A i \in 1..Len(candidates) :
            Kept(candidates[i]) <=> candidates[i].score >= AskedThreshold

\* The case of C6 and C7: anonymize_text was given well-formed, non-overlapping
\* spans and a policy table it can read, and nothing raised.
CleanAnonymize ==
    /\ Done("anonymize_text") /\ resultsArg # {} /\ fault = "none"
    /\ text # <<>>
    /\ ~ConvertRaises(Given)
    /\ WellFormedAll(Given, Len(text))
    /\ PairwiseDisjoint(Given)
    /\ ~ConfigRaises(Table)

\* The first half of C6: the returned text is the splice of the replacements
\* into the original text.
OutputIsSplice ==
    anon.text = Splice(text, Edits(text, SortByStart(Given), operators), 0)

\* The second half of C6: each item's replacement, put at the item's offsets
\* in the original text, accounts for the returned text.
ItemsAccountForOutput ==
    LET edits == ItemEdits(SortByStart(anon.items))
    IN /\ \A i \in 1..Len(edits) :
             0 <= edits[i].start /\ edits[i].start <= edits[i].end
             /\ edits[i].end <= Len(text)
       /\ PairwiseDisjoint(edits)
       /\ Splice(text, edits, 0) = anon.text

\* C6: for non-overlapping spans the text anonymize_text returns is the
\* original with each span replaced by its replacement and the rest left as
\* it was, and the items' replacements at their original offsets account for
\* it.
C6_SpliceRoundTrip ==
    CleanAnonymize => (OutputIsSplice /\ ItemsAccountForOutput)

\* C7: every item anonymize_text returns carries the start and end of its
\* span in the original text.
C7_OriginalOffsets ==
    CleanAnonymize =>
        \A i \in 1..Len(anon.items) :
            \E j \in 1..Len(Given) :
                /\ Given[j].entity_type = anon.items[i].entity_type
                /\ Given[j].start = anon.items[i].start
                /\ Given[j].end = anon.items[i].end

\* C8: a span whose entity type has no entry in the policy table gets the
\* table's DEFAULT entry; when the table has no DEFAULT entry either, no
\* operator is applied to it (the call fails instead).
C8_DefaultOrFail ==
    CleanAnonymize =>
        \A i \in 1..Len(anon.items) :
            anon.items[i].entity_type \notin DOMAIN Table =>
                /\ "DEFAULT" \in DOMAIN Table
                /\ anon.items[i].operator = Table["DEFAULT"].type

\* C9: every policy entry whose type is one of the six strategies of
\* Config.ANONYMIZATION_STRATEGIES gets an operator of that strategy
\* registered for its entity type.
C9_AllStrategies ==
    (Done("anonymize_text") /\ text # <<>> /\ resultsArg # {}
        /\ ~ConvertRaises(Given) /\ ~ConfigRaises(Table)) =>
        \A e \in DOMAIN Table :
            Table[e].type \in ANONYMIZATION_STRATEGIES =>
                /\ e \in DOMAIN operators
                /\ operators[e].operator_name = Table[e].type

\* C10: a non-empty text anonymized with an explicitly given empty span list
\* comes back unchanged with no items and without any detection, from
\* anonymize_text and from the /api/anonymize handler alike.
C10_EmptySpans ==
    (pc = "done" /\ text # <<>> /\ resultsArg = {<<>>}) =>
        /\ Done("anonymize_text") =>
              anon = [text |-> text, items |-> <<>>] /\ detectCalls = 0
        /\ Done("api_anonymize") =>
              /\ resp.success
              /\ resp.anonymized_text = text
              /\ resp.anonymized_items = <<>>
              /\ detectCalls = 0

\* C11: anonymize_text on an empty text returns an empty text and no items,
\* whatever spans and policy table it is given, and calls neither the detector
\* nor the anonymizer.
C11_EmptyText ==
    (Done("anonymize_text") /\ text = <<>>) =>
        /\ anon = [text |-> <<>>, items |-> <<>>]
        /\ detectCalls = 0
        /\ engineCalls = 0

\* C11 witness: an empty text was anonymized with spans and a policy table of
\* the caller's.
C11_Witness ==
    /\ Done("anonymize_text") /\ text = <<>>
    /\ resultsArg # {} /\ Given # <<>>
    /\ configArg # {} /\ DOMAIN Table # {}
    /\ anon.text = <<>>

\* The list get_statistics was called with.
Counted == CHOOSE l \in resultsArg : TRUE

\* C12: get_statistics on an empty list returns total_entities 0, an empty
\* entity_counts, average_confidence 0 and the three confidence buckets, each
\* present with count 0.
C12_EmptyStatistics ==
    (Done("get_statistics") /\ Counted = <<>>) =>
        /\ stats.total_entities = 0
        /\ stats.entity_counts = EmptyDict
        /\ stats.average_confidence = 0
        /\ "confidence_distribution" \in DOMAIN stats
        /\ Cardinality(DOMAIN stats.confidence_distribution) = 3
        /\ \A k \in DOMAIN stats.confidence_distribution :
              stats.confidence_distribution[k] = 0

\* How many results of the list have a score in [lo, hi).
ScoresWithin(rs, lo, hi) ==
    Cardinality({i \in 1..Len(rs) : lo <= rs[i].score /\ rs[i].score < hi})

\* C13: for a non-empty list get_statistics counts each result in exactly one
\* bucket: high iff score >= 0.8, medium iff 0.5 <= score < 0.8, low iff
\* score < 0.5; the three counts sum to total_entities.
C13_Buckets ==
    (Done("get_statistics") /\ Counted # <<>>) =>
        LET dist == stats.confidence_distribution
        IN /\ dist["high (>= 0.8)"] = ScoresWithin(Counted, 8000, 10001)
           /\ dist["medium (0.5-0.79)"] = ScoresWithin(Counted, 5000, 8000)
           /\ dist["low (< 0.5)"] = ScoresWithin(Counted, 0, 5000)
           /\ dist["high (>= 0.8)"] + dist["medium (0.5-0.79)"]
                + dist["low (< 0.5)"] = stats.total_entities
           /\ stats.total_entities = Len(Counted)

\* C13 witness: a list with a score of exactly 0.8, one of exactly 0.5 and one
\* below 0.5 was counted, one result to each bucket.
C13_Witness ==
    /\ Done("get_statistics") /\ Len(Counted) = 3
    /\ \E i, j, k \in 1..3 :
          Counted[i].score = 8000 /\ Counted[j].score = 5000
          /\ Counted[k].score < 5000
    /\ \A b \in DOMAIN stats.confidence_distribution :
          stats.confidence_distribution[b] = 1

\* The 'texts' list of the batch request, and its entries in the reply.
Batch == CHOOSE l \in batch : TRUE
Entries == resp.batch_results
BatchDone == Done("batch_analyze") /\ resp.success

IsError(r) == "error" \in DOMAIN r

\* C14: a non-string element at position i gives an error record at position
\* i and the batch goes on: every string element, before or after it, gets
\* the results and statistics it gets in the batch of the string elements
\* alone.
C14_NonStringIsolated ==
    BatchDone =>
        LET alone == BatchResults(SelectSeq(Batch, IsStr), valid,
                                  ApiScore(scoreArg))
            strings == {k \in 1..Len(Batch) : IsStr(Batch[k])}
            \* position among the string elements of the string at k
            rank(k) == Cardinality({j \in strings : j <= k})
        IN /\ Len(Entries) = Len(Batch)
           /\ \A k \in 1..Len(Batch) :
                 IF IsStr(Batch[k])
                 THEN /\ ~IsError(Entries[k])
                      /\ Entries[k].results = alone[rank(k)].results
                      /\ Entries[k].statistics = alone[rank(k)].statistics
                 ELSE IsError(Entries[k]) /\ Entries[k].index = k - 1

\* C14 witness: a batch of three with a non-string in the middle, and the
\* string after it analyzed with something found.
C14_Witness ==
    /\ BatchDone /\ Len(Batch) = 3
    /\ IsStr(Batch[1]) /\ ~IsStr(Batch[2]) /\ IsStr(Batch[3])
    /\ IsError(Entries[2])
    /\ Entries[1].results # <<>>
    /\ Entries[3].results # <<>>

\* The recognizer is called for element k and raises.
RecognizerFails(k) ==
    IsStr(Batch[k]) /\ Batch[k].text # <<>> /\ Batch[k].fault = "detector"

\* C15: when the recognizer call fails for element i its entry is an error
\* record, counted in failed_analyses and not in successful_analyses.
C15_RecognizerFailureRecorded ==
    BatchDone =>
        LET failing == {k \in 1..Len(Batch) : RecognizerFails(k)}
            nonstr == {k \in 1..Len(Batch) : ~IsStr(Batch[k])}
        IN /\ \A k \in failing : IsError(Entries[k])
           /\ resp.batch_statistics.failed_analyses
                = Cardinality(failing \cup nonstr)
           /\ resp.batch_statistics.successful_analyses
                = Len(Batch) - Cardinality(failing \cup nonstr)

\* C16: batch_results has one entry for each element, the k-th entry
\* (0-based) has index k and describes the k-th element: an error record for
\* a non-string, the preview and the analysis of the text for a string.
C16_IndexStable ==
    BatchDone =>
        /\ Len(Entries) = Len(Batch)
        /\ \A k \in 1..Len(Batch) :
              /\ Entries[k].index = k - 1
              /\ IF IsStr(Batch[k])
                 THEN /\ Entries[k].text_preview = Batch[k].text
                      /\ Entries[k].results
                            = AnalyzeText(Batch[k].text, valid,
                                          ApiScore(scoreArg),
                                          Batch[k].candidates, Batch[k].fault)
                 ELSE IsError(Entries[k])

\* C16 witness: a batch of three that begins with a failure followed by two
\* successes with different results.
C16_Witness ==
    /\ BatchDone /\ Len(Batch) = 3
    /\ IsError(Entries[1]) /\ ~IsError(Entries[2]) /\ ~IsError(Entries[3])
    /\ Len(Entries[2].results) = 2
    /\ Len(Entries[3].results) = 1

RECURSIVE SumOfLengths(_)
SumOfLengths(entries) ==
    IF entries = <<>> THEN 0
    ELSE Len(Head(entries).results) + SumOfLengths(Tail(entries))

\* C17: the batch summary agrees with the entries: total_texts is the number
\* of elements, failed_analyses the number of entries with an error,
\* successful_analyses + failed_analyses = total_texts, and
\* total_entities_found the sum of the lengths of the entries' results.
C17_SummaryConsistent ==
    BatchDone =>
        LET summary == resp.batch_statistics
        IN /\ summary.total_texts = Len(Batch)
           /\ summary.failed_analyses
                = Cardinality({k \in 1..Len(Entries) : IsError(Entries[k])})
           /\ summary.successful_analyses + summary.failed_analyses
                = summary.total_texts
           /\ summary.total_entities_found = SumOfLengths(Entries)

\* C17 witness: a batch with an error entry, an entry with two results and an
\* entry with one.
C17_Witness ==
    /\ BatchDone
    /\ resp.batch_statistics.failed_analyses = 1
    /\ resp.batch_statistics.successful_analyses = 2
    /\ resp.batch_statistics.total_entities_found = 3

\* C18: validate_entities on a non-empty request returns the requested types
\* that are supported, in request order, when there is one; when there is
\* none, or the request is empty, it returns the analyzer's configured
\* entity set (Config.DEFAULT_PII_ENTITIES unless constructed otherwise).
C18_ValidateEntities ==
    Done("validate_entities") =>
        LET supported == IF provider = {} THEN Range(DEFAULT_PII_ENTITIES)
                         ELSE Range(CHOOSE l \in provider : TRUE)
            wanted == SelectSeq(entitiesArg, LAMBDA e : e \in supported)
        IN IF wanted # <<>> THEN valid = wanted
           ELSE valid = (IF ctorEntities = <<>> THEN DEFAULT_PII_ENTITIES
                         ELSE ctorEntities)

\* C18 witness: two supported types were requested in the reverse of the
\* provider's order with an unknown one between them, and the two came back
\* in request order.
C18_Witness ==
    /\ Done("validate_entities") /\ provider # {}
    /\ entitiesArg = <<"UK_NHS", "BOGUS", "PERSON">>
    /\ valid = <<"UK_NHS", "PERSON">>

\* C19: when the recognizer call fails, what analyze_text returns, and the
\* /api/analyze reply built from it, differs from what they are when the
\* recognizer succeeds and finds nothing.
C19_FailureDistinguished ==
    /\ (Done("analyze_text") /\ fault = "detector" /\ text # <<>>) =>
          results # AnalyzeText(text, <<>>, scoreArg, <<>>, "none")
    /\ (Done("api_analyze") /\ fault = "detector" /\ text # <<>>) =>
          resp # ApiAnalyze(text, scoreArg, <<>>, "none")

\* The request lacks what the endpoint requires: a non-empty text, a
\* non-empty list of texts.
RequestInvalid ==
    IF op = "batch_analyze" THEN batch = {} \/ batch = {<<>>} ELSE Blank(text)

\* A collaborator was called while the request was handled, and raised.
RaisedInRequest ==
    \/ fault = "get_analyzer" /\ ~RequestInvalid
    \/ fault = "detector" /\ detectCalls > 0
    \/ fault = "engine" /\ engineCalls > 0

\* C20: whenever something raises while /api/analyze, /api/anonymize or
\* /api/batch-analyze handles a request, or the request lacks its text, the
\* reply is a structured error: success false, an error message and a
\* timestamp.
C20_StructuredErrors ==
    ((Done("api_analyze") \/ Done("api_anonymize") \/ Done("batch_analyze"))
        /\ (RaisedInRequest \/ RequestInvalid)) =>
        /\ resp.success = FALSE
        /\ "error" \in DOMAIN resp
        /\ "timestamp" \in DOMAIN resp

\* The place of an entity type in lexicographic order, for the types the
\* detector output of the model names.
TypeRank(et) ==
    CASE et = "EMAIL_ADDRESS" -> 1
      [] et = "LOCATION" -> 2
      [] et = "PERSON" -> 3
      [] OTHER -> 4

SpanLength(s) == s.end - s.start

\* Of two spans with the same start, a may come before b: it is longer, or as
\* long with a higher score, or as long and as high with the smaller type.
MayPrecede(a, b) ==
    \/ SpanLength(a) > SpanLength(b)
    \/ /\ SpanLength(a) = SpanLength(b)
       /\ \/ a.score > b.score
          \/ a.score = b.score /\ TypeRank(a.entity_type) <= TypeRank(b.entity_type)

\* C21: among spans with the same start the list analyze_text returns has the
\* longer span first, then the higher score, then the lexicographically
\* smaller entity_type, whatever order the detector returned them in.
C21_TieBreak ==
    (Done("analyze_text") /\ CleanDetection) =>
        \A i \in 1..(Len(results) - 1) :
            results[i].start = results[i + 1].start =>
                MayPrecede(results[i], results[i + 1])

Overlap(a, b) == a.start < b.end /\ b.start < a.end

\* C22: of two overlapping detections of equal length that both reach the
\* threshold, only the one with the higher score is in the list analyze_text
\* returns; of (0,10,0.6) and (5,15,0.9) at threshold 0.5 only the second.
C22_HigherScoreWins ==
    (Done("analyze_text") /\ CleanDetection /\ fault = "none") =>
        \A i, j \in 1..Len(candidates) :
            (/\ Overlap(candidates[i], candidates[j])
             /\ SpanLength(candidates[i]) = SpanLength(candidates[j])
             /\ candidates[i].score < candidates[j].score
             /\ candidates[i].score >= AskedThreshold) =>
                ~Kept(candidates[i])

\* A span's policy entry is a mask that masks the whole span: chars_to_mask
\* is -1, given or supplied by anonymize_text.
MasksAll(et) ==
    /\ et \in DOMAIN Table
    /\ Table[et].type = "mask"
    /\ Get(Table[et], "chars_to_mask", -1) = -1

\* The edits C23 expects: a span masked whole becomes as many masking
\* characters as it is long, any other span what its operator makes of it.
MaskAllEdits(t, spans, ops) ==
    [i \in 1..Len(spans) |->
        IF MasksAll(spans[i].entity_type)
        THEN [start |-> spans[i].start,
              end   |-> spans[i].end,
              replacement |->
                [k \in 1..SpanLength(spans[i]) |->
                    Get(Table[spans[i].entity_type], "masking_char", "*")]]
        ELSE Edits(t, spans, ops)[i]]

\* C23: a mask entry with chars_to_mask -1, the value anonymize_text supplies
\* when the entry gives none, replaces every character of the span with the
\* masking character.
C23_MaskAll ==
    CleanAnonymize =>
        anon.text = Splice(text,
                        MaskAllEdits(text, SortByStart(Given), operators), 0)

RECURSIVE MinScore(_)
MinScore(rs) ==
    IF Len(rs) = 1 THEN rs[1].score
    ELSE Min(Head(rs).score, MinScore(Tail(rs)))

RECURSIVE MaxScore(_)
MaxScore(rs) ==
    IF Len(rs) = 1 THEN rs[1].score
    ELSE Max(Head(rs).score, MaxScore(Tail(rs)))

RECURSIVE ScoreTotal(_)
ScoreTotal(rs) ==
    IF rs = <<>> THEN 0 ELSE Head(rs).score + ScoreTotal(Tail(rs))

\* C24: for a non-empty list average_confidence is the arithmetic mean of the
\* scores rounded to 3 decimal digits (a thousandth, 10 of the model's units,
\* and no farther than half of one from the mean), and lies between the
\* lowest and the highest score.
C24_AverageConfidence ==
    (Done("get_statistics") /\ Counted # <<>>) =>
        LET avg == stats.average_confidence
            n == Len(Counted)
            off == avg * n - ScoreTotal(Counted)
        IN /\ avg % 10 = 0
           /\ 2 * off <= 10 * n /\ -(2 * off) <= 10 * n
           /\ MinScore(Counted) <= avg /\ avg <= MaxScore(Counted)

\* C24 witness: three scores whose mean is not a whole thousandth and is
\* rounded up.
C24_Witness ==
    /\ Done("get_statistics") /\ Len(Counted) = 3
    /\ ScoreTotal(Counted) % 30 = 20
    /\ stats.average_confidence * 3 > ScoreTotal(Counted)

\* C25: the conversion-and-sort step of analyze_text is idempotent: fed the
\* list it returned as the detector's output, it returns the same list, the
\* same members in the same order.
C25_Idempotent ==
    Done("analyze_text") => ConvertResults(text, results) = results

\* C25 witness: the step rounded a score and reordered two detections.
C25_Witness ==
    /\ Done("analyze_text") /\ Len(results) = 2
    /\ candidates[1].start > candidates[2].start
    /\ results[1].score # candidates[2].score

\* The sum of the values of a dict over the keys in keys.
RECURSIVE SumValues(_, _)
SumValues(d, keys) ==
    IF keys = {} THEN 0
    ELSE LET k == CHOOSE x \in keys : TRUE
         IN d[k] + SumValues(d, keys \ {k})

\* C30: for a non-empty list the record of get_statistics is consistent with
\* itself: the entity_counts sum to total_entities, the length of the list;
\* the types counted are the types of the list, each at least once; and
\* high_confidence_count is the high bucket of confidence_distribution.
C30_StatisticsConsistent ==
    (Done("get_statistics") /\ Counted # <<>>) =>
        /\ stats.total_entities = Len(Counted)
        /\ SumValues(stats.entity_counts, DOMAIN stats.entity_counts)
              = stats.total_entities
        /\ DOMAIN stats.entity_counts
              = {Counted[i].entity_type : i \in 1..Len(Counted)}
        /\ \A et \in DOMAIN stats.entity_counts : stats.entity_counts[et] >= 1
        /\ stats.high_confidence_count
              = stats.confidence_distribution["high (>= 0.8)"]

\* C30 witness: three results of two entity types, one of them of high
\* confidence.
C30_Witness ==
    /\ Done("get_statistics") /\ Len(Counted) = 3
    /\ Cardinality(DOMAIN stats.entity_counts) = 2
    /\ \E et \in DOMAIN stats.entity_counts : stats.entity_counts[et] = 2
    /\ stats.high_confidence_count = 1

\* anonymize_text was given spans, and converting them, building the
\* operators or the anonymizer call raised.
AnonymizeFailed ==
    /\ text # <<>> /\ resultsArg # {} /\ Given # <<>>
    /\ fault \in {"none", "engine"}
    /\ AnonymizeRaises(text, resultsArg, configArg, candidates, fault)

\* What anonymize_text answers a failure with, as the reply shows it.
ReplyUnchanged ==
    /\ resp.success
    /\ resp.anonymized_text = text
    /\ resp.anonymized_items = <<>>
    /\ resp.detected_entities = Given
    /\ resp.statistics = GetStatistics(Given)

\* C28 as stated: when converting the spans, building the operators or the
\* anonymizer call raises, anonymize_text returns the text unchanged with no
\* items, and the /api/anonymize reply built from it reports success with
\* detected_entities and statistics unchanged.
C28_NeverRaises ==
    /\ (Done("anonymize_text") /\ AnonymizeFailed) =>
          anon = [text |-> text, items |-> <<>>]
    /\ (Done("api_anonymize") /\ AnonymizeFailed) => ReplyUnchanged

\* C28 amended: as stated for anonymize_text; the /api/anonymize reply
\* reports success with the text, detected_entities and statistics unchanged
\* when every span has an entity_type and a score, and is a structured error
\* when one lacks either (get_statistics raises on it).
C28_NeverRaisesAmended ==
    /\ (Done("anonymize_text") /\ AnonymizeFailed) =>
          anon = [text |-> text, items |-> <<>>]
    /\ (Done("api_anonymize") /\ AnonymizeFailed) =>
          IF StatisticsRaises(Given)
          THEN ~resp.success /\ "error" \in DOMAIN resp
          ELSE ReplyUnchanged

\* C28 witness: /api/anonymize was given a span without 'start', and a good
\* span before it; anonymize_text left the text as it was and the reply
\* reports success.
C28_Witness ==
    /\ Done("api_anonymize") /\ AnonymizeFailed
    /\ Len(Given) = 2
    /\ ConvertRaises(Given) /\ ~StatisticsRaises(Given)
    /\ resp.success /\ resp.anonymized_text = text

\* C26: under any interleaving of concurrent get_analyzer calls, after a
\* warm-up that failed included, at most one PIIAnalyzer is ever constructed,
\* every call returns the same instance, and _analyzer_instance once set is
\* never replaced.
C26_SingleInstance ==
    /\ [](built <= 1)
    /\ [](\A t, u \in Threads :
            (tpc[t] = "done" /\ tpc[u] = "done") => got[t] = got[u])
    /\ [][~IsNone(instance) => instance' = instance]_vars

\* C27: in analyze_file and anonymize_file, once the handler has reached the
\* save of the upload, cleanup_file has been called exactly once when the
\* response is returned, whatever the outcome (the save, the extraction, the
\* analysis or the anonymization failed, or all succeeded), and never more
\* than once.
C27_CleanupOnce ==
    /\ cleanups <= 1
    /\ (saved /\ fpc \in {"respond", "done"}) => cleanups = 1

\* C27 witness: the save raised, cleanup_file was called once and the error
\* response has been returned.
C27_Witness ==
    /\ fpc = "done"
    /\ saved
    /\ raised = "save"
    /\ cleanups = 1
    /\ ~fresp.success

\* C29: in one run of PIIDetectionServer, whatever the start-up outcome and
\* the signals delivered, shutdown clears is_running at most once and removes
\* the temp directory at most once, only after a server start had set
\* is_running, and is_running is False once run() has finished.
C29_ShutdownOnce ==
    /\ cleared <= 1
    /\ removed <= 1
    /\ cleared > 0 => started
    /\ removed <= cleared
    /\ mpc = "finished" => ~is_running

\* C29 witness: two signals were delivered to a started server, the body of
\* shutdown ran once and run() has finished.
C29_Witness ==
    /\ mpc = "finished"
    /\ started
    /\ signals >= 2
    /\ cleared = 1
    /\ removed = 1

====
